---- MODULE Spec2Model ----
(***************************************************************************)
(* Model of ktsimpso/adventofcode2020:                                     *)
(*   - SumChecker (src/src/lib.rs): a multiset of isize kept as a count    *)
(*     map (base_numbers) and a set of distinct values (unique_numbers),   *)
(*     with add_number, remove_number and the recursive find_sum_of_n.     *)
(*   - the handheld program simulator and its repair search                *)
(*     (src/src/handheld_halting.rs): find_acc_when_infinite and           *)
(*     process_program.                                                    *)
(*   - the adapter chain count (src/src/adapter_array.rs), the seating     *)
(*     equilibrium (src/src/seating_system.rs), find_missing_number        *)
(*     (src/src/encoding_error.rs) and find_bags_that_contain              *)
(*     (src/src/handy_haversacks.rs).                                      *)
(* main runs one command per process: every specification starts one       *)
(* component and leaves the variables of the others idle.                  *)
(* isize arithmetic is modelled on the integers: the operands of the       *)
(* model stay far from the 64-bit range.  usize subtraction is modelled    *)
(* with its underflow (n - 1 at n = 0).                                    *)
(***************************************************************************)
EXTENDS Integers, Sequences, FiniteSets, TLC

VARIABLES
    \* SumChecker (lib.rs:50-53)
    base_numbers,      \* HashMap<isize, usize>: a function on the stored keys
    unique_numbers,    \* HashSet<isize>
    call,              \* the last call made on the checker and what it returned
    \* process_program (handheld_halting.rs:84-117)
    program,           \* the parsed program, Vec<ProgramLine>
    modify,            \* handheld_halting_arguments.modify
    pp,                \* where process_program stands
    index,             \* the loop variable of the repair search
    result,            \* the isize process_program returns
    outcome,           \* which return statement produced result
    invocation,        \* how often the command has run on this program
    \* find_acc_when_infinite (handheld_halting.rs:119-149)
    sim_program,       \* its argument
    acc_value,
    visited,
    program_counter,
    sim_at,            \* "idle", "loop", "returned" or "panicked"
    sim_ret,           \* the Result<isize, isize> it returned
    executed,          \* history: how often each index was executed in this run
    runs,              \* history: every finished run, as (program, result)
    \* find_number_of_unique_valid_adapter_combinations (adapter_array.rs:117-136)
    adapters,          \* its argument: the sorted chain built by process_adapters
    number_of_ones,
    counting_ones,
    combinations,
    window,            \* the window of adapters.windows(2) the loop stands at
    adapter_at,        \* "idle", "loop" or "returned"
    \* find_equalibrium (seating_system.rs:127-144)
    seating_arrangement,   \* its argument: the parsed layout
    tolerance,
    adjacency_definition,
    previous_arrangement,
    seat_at,           \* "idle", "loop" or "returned"
    \* find_missing_number (encoding_error.rs:121-132)
    numbers,           \* its argument: the parsed input
    preamble_length,
    xmas_window,       \* the window of numbers.windows(preamble_length + 1) reached
    missing,           \* the isize it returns
    xmas_at,           \* "idle", "scan" or "returned"
    \* find_bags_that_contain (handy_haversacks.rs:145-178)
    rules,             \* its argument: the parsed rules
    sack_name,         \* its argument: the target
    rule_index,        \* the rule the first for_each stands at
    reverse_lookup,    \* HashMap<String, HashSet<String>>: child -> containers
    parents,           \* HashSet<&String>
    queue,             \* VecDeque<&String>, used as a stack
    bag_count,         \* the usize it returns
    bag_at,            \* "idle", "build", "search" or "returned"
    \* find_number_of_bags_in_target (handy_haversacks.rs:117-143)
    inside_rules,      \* its argument rules, contains with the quantities
    inside_sack_name,  \* its argument sack_name
    inside_order,      \* the order in which the HashMaps iterate
    bag_lookup,        \* HashMap<String, HashMap<String, usize>>
    cache,             \* HashMap<String, usize>
    inside_ret,        \* what the call returned
    inside_at,         \* "idle", "collect", "recurse" or "returned"
    \* find_missing_boarding_id (binary_boarding.rs:111-124)
    boarding_passes,   \* its argument, the Vec<BoardingPass>
    boarding_ids,      \* the Vec<usize> of seat ids (collected, then sorted)
    boarding_ret,      \* the usize the function returned
    boarding_at,       \* "idle", "collect", "sort", "find" or "returned"
    \* process_schedule (shuttle_search.rs:67-92)
    schedule,          \* the parsed BusSchedule
    next_bus,          \* what find_next_bus returned: (bus_number, depart_time)
    shuttle_ret,       \* what process_schedule returned
    shuttle_at,        \* "idle", "find", "multiply" or "returned"
    \* find_and_sum_1_and_3_votage_gaps (adapter_array.rs:104-115)
    gap_adapters,      \* its argument adapters, the sorted chain
    gap_ones,          \* its local ones
    gap_threes,        \* its local threes
    gap_ret,           \* the usize it returned
    gap_at,            \* "idle", "ones", "threes", "result" or "returned"
    \* get_line_of_sight_seats (seating_system.rs:203-350)
    sight_arrangement, \* its argument seating_arrangement
    sight_x,           \* its argument x
    sight_y,           \* its argument y
    direction,         \* which of the 8 calls of traverse_until_seat runs
    current,           \* (current_x, current_y) of traverse_until_seat
    sight_result,      \* its local result, the Vec<FloorTile> it builds
    read_at,           \* history: where each tile of result was read
    indexed,           \* history: the positions the calls have indexed
    sight_at,          \* "idle", "traverse", "returned" or "fault"
    \* parse_lines (lib.rs:182-194)
    lines,             \* its argument lines
    line_position,     \* how many lines into_iter() has handed to try_fold
    parsed_lines,      \* the accumulator of try_fold
    parse_calls,       \* history: the positions of the lines parse_function got
    parse_ret,         \* the Result it returned
    parse_at,          \* "idle", "fold" or "returned"
    \* find_continous_sequence_of_at_least_two_that_sum_to_target
    \* (encoding_error.rs:134-150)
    seq_numbers,       \* its argument numbers
    seq_target,        \* its argument target
    seq_low,           \* its local low
    seq_high,          \* its local high
    seq_ret,           \* the Vec<isize> it returned, or the panic that ended it
    seq_at             \* "idle", "loop" or "returned"

sumVars == <<base_numbers, unique_numbers, call>>

simVars == <<sim_program, acc_value, visited, program_counter, sim_at, sim_ret,
             executed>>

ppVars == <<program, modify, pp, index, result, outcome, invocation>>

handheldVars == <<program, modify, pp, index, result, outcome, invocation,
                  sim_program, acc_value, visited, program_counter, sim_at, sim_ret,
                  executed, runs>>

adapterVars == <<adapters, number_of_ones, counting_ones, combinations, window,
                 adapter_at>>

seatVars == <<seating_arrangement, tolerance, adjacency_definition,
              previous_arrangement, seat_at>>

xmasVars == <<numbers, preamble_length, xmas_window, missing, xmas_at>>

bagVars == <<rules, sack_name, rule_index, reverse_lookup, parents, queue,
             bag_count, bag_at>>

insideVars == <<inside_rules, inside_sack_name, inside_order, bag_lookup, cache,
                inside_ret, inside_at>>

boardingVars == <<boarding_passes, boarding_ids, boarding_ret, boarding_at>>

shuttleVars == <<schedule, next_bus, shuttle_ret, shuttle_at>>

gapVars == <<gap_adapters, gap_ones, gap_threes, gap_ret, gap_at>>

sightVars == <<sight_arrangement, sight_x, sight_y, direction, current,
              sight_result, read_at, indexed, sight_at>>

parseVars == <<lines, line_position, parsed_lines, parse_calls, parse_ret, parse_at>>

sequenceVars == <<seq_numbers, seq_target, seq_low, seq_high, seq_ret, seq_at>>

vars == <<sumVars, handheldVars, adapterVars, seatVars, xmasVars, bagVars,
          insideVars,
          boardingVars,
          shuttleVars,
          gapVars,
          sightVars,
          parseVars,
          sequenceVars>>

\* main runs one command in a process (main.rs:59-66): while one component
\* runs, the variables of the others stay as they are
exceptSum == <<handheldVars, adapterVars, seatVars, xmasVars, bagVars,
    insideVars, boardingVars, shuttleVars, gapVars, sightVars, parseVars,
    sequenceVars>>
exceptHandheld == <<sumVars, adapterVars, seatVars, xmasVars, bagVars,
    insideVars, boardingVars, shuttleVars, gapVars, sightVars, parseVars,
    sequenceVars>>
exceptAdapter == <<sumVars, handheldVars, seatVars, xmasVars, bagVars,
    insideVars, boardingVars, shuttleVars, gapVars, sightVars, parseVars,
    sequenceVars>>
exceptSeats == <<sumVars, handheldVars, adapterVars, xmasVars, bagVars,
    insideVars, boardingVars, shuttleVars, gapVars, sightVars, parseVars,
    sequenceVars>>
exceptXmas == <<sumVars, handheldVars, adapterVars, seatVars, bagVars,
    insideVars, boardingVars, shuttleVars, gapVars, sightVars, parseVars,
    sequenceVars>>
exceptBags == <<sumVars, handheldVars, adapterVars, seatVars, xmasVars,
    insideVars, boardingVars, shuttleVars, gapVars, sightVars, parseVars,
    sequenceVars>>
exceptInside == <<sumVars, handheldVars, adapterVars, seatVars, xmasVars,
    bagVars, boardingVars, shuttleVars, gapVars, sightVars, parseVars,
    sequenceVars>>
exceptBoarding == <<sumVars, handheldVars, adapterVars, seatVars, xmasVars,
    bagVars, insideVars, shuttleVars, gapVars, sightVars, parseVars,
    sequenceVars>>
exceptShuttle == <<sumVars, handheldVars, adapterVars, seatVars, xmasVars,
    bagVars, insideVars, boardingVars, gapVars, sightVars, parseVars,
    sequenceVars>>
exceptGaps == <<sumVars, handheldVars, adapterVars, seatVars, xmasVars,
    bagVars, insideVars, boardingVars, shuttleVars, sightVars, parseVars,
    sequenceVars>>
exceptSight == <<sumVars, handheldVars, adapterVars, seatVars, xmasVars,
    bagVars, insideVars, boardingVars, shuttleVars, gapVars, parseVars,
    sequenceVars>>
exceptParse == <<sumVars, handheldVars, adapterVars, seatVars, xmasVars,
    bagVars, insideVars, boardingVars, shuttleVars, gapVars, sightVars,
    sequenceVars>>
exceptSequence == <<sumVars, handheldVars, adapterVars, seatVars, xmasVars,
    bagVars, insideVars, boardingVars, shuttleVars, gapVars, sightVars,
    parseVars>>

----------------------------------------------------------------------------
(* Bounds of the SumChecker model *)

\* the checker's state machine: held values are drawn from -MaxValue..(MaxValue - 1),
\* at most MaxHeld numbers are held at once, the n of find_sum_of_n ranges over
\* 0..MaxN and its target over -MaxTarget..MaxTarget
MaxValue == 2
MaxHeld == 4
MaxN == 3
MaxTarget == 1

Values == (0 - MaxValue)..(MaxValue - 1)
Targets == (0 - MaxTarget)..MaxTarget

\* the query on a checker built by with_vec: the input vector holds at most
\* WideHeld numbers from -WideValue..(WideValue - 1), each at most WideCopies
\* times; n ranges over 0..WideN and target over -WideTarget..WideTarget
WideValue == 3
WideHeld == 6
WideCopies == 2
WideN == 4
WideTarget == 1

WideValues == (0 - WideValue)..(WideValue - 1)
WideTargets == (0 - WideTarget)..WideTarget

----------------------------------------------------------------------------
(* Helpers *)

Min(S) == CHOOSE x \in S : \A y \in S : x <= y

RECURSIVE SumSeq(_)
SumSeq(s) == IF s = <<>> THEN 0 ELSE Head(s) + SumSeq(Tail(s))

\* found_values.into_iter().filter(|x| x == value).count()
Count(s, value) == Cardinality({j \in DOMAIN s : s[j] = value})

\* map.get(&key).unwrap_or(&0)
GetOr0(map, key) == IF key \in DOMAIN map THEN map[key] ELSE 0

\* all orders in which a HashSet holding exactly the elements of S can be iterated
RECURSIVE Orders(_)
Orders(S) ==
    IF S = {} THEN {<<>>}
    ELSE UNION {{<<x>> \o o : o \in Orders(S \ {x})} : x \in S}

\* Result<Vec<isize>, Error>, and the abnormal end of the call (panic / stack exhaustion)
Ok(values) == [tag |-> "Ok", values |-> values]
Err == [tag |-> "Err", values |-> <<>>]
Fault == [tag |-> "Fault", values |-> <<>>]
Unit == [tag |-> "Unit", values |-> <<>>]

\* no call has been made on the checker yet
NoCall == [op |-> "new", arg |-> 0, n |-> 0, order |-> <<>>, count |-> 0, ret |-> Unit]

----------------------------------------------------------------------------
(* SumChecker, lib.rs:50-135 *)

\* SumChecker::new
new == [base_numbers |-> <<>>, unique_numbers |-> {}]

self == [base_numbers |-> base_numbers, unique_numbers |-> unique_numbers]

\* HashMap::insert(key, value)
MapInsert(map, key, value) ==
    [k \in (DOMAIN map) \cup {key} |-> IF k = key THEN value ELSE map[k]]

\* HashMap::remove(key)
MapRemove(map, key) == [k \in (DOMAIN map) \ {key} |-> map[k]]

\* SumChecker::add_number as a function of the checker
add_number(s, number) ==
    [unique_numbers |-> s.unique_numbers \cup {number},
     base_numbers |->
        MapInsert(s.base_numbers, number,
                  IF number \in DOMAIN s.base_numbers
                  THEN s.base_numbers[number] + 1
                  ELSE 1)]

\* a remove_number that forgets the distinct-value set when the last copy goes
remove_number_keeps_unique(s, number) ==
    LET count == GetOr0(s.base_numbers, number) IN
    CASE count = 0 -> s
      [] count = 1 -> [unique_numbers |-> s.unique_numbers,
                       base_numbers |-> MapRemove(s.base_numbers, number)]
      [] OTHER -> [unique_numbers |-> s.unique_numbers,
                   base_numbers |-> MapInsert(s.base_numbers, number, count - 1)]

\* SumChecker::remove_number as a function of the checker
remove_number(s, number) ==
    LET count == GetOr0(s.base_numbers, number) IN
    CASE count = 0 -> s
      [] count = 1 -> [unique_numbers |-> s.unique_numbers \ {number},
                       base_numbers |-> MapRemove(s.base_numbers, number)]
      [] OTHER -> [unique_numbers |-> s.unique_numbers,
                   base_numbers |-> MapInsert(s.base_numbers, number, count - 1)]

\* SumChecker::with_vec: new() followed by add_number for each element, in order
RECURSIVE with_vec_from(_, _)
with_vec_from(s, input) ==
    IF input = <<>> THEN s
    ELSE with_vec_from(add_number(s, Head(input)), Tail(input))

with_vec(input) == with_vec_from(new, input)

\* a base case that accepts the key target - value whenever it is stored
find_sum_any_count(s, order, target) ==
    LET hits == {i \in 1..Len(order) :
                    LET key == target - order[i] IN
                    key \in DOMAIN s.base_numbers}
    IN  IF hits = {} THEN Err
        ELSE LET value == order[Min(hits)] IN Ok(<<target - value, value>>)

\* a base case that scans for the first stored value below the target
find_sum_first_below(s, order, target) ==
    LET hits == {i \in 1..Len(order) : order[i] < target}
    IN  IF hits = {} THEN Err
        ELSE LET value == order[Min(hits)] IN Ok(<<target - value, value>>)

\* SumChecker::find_sum.  order is the order in which the HashSet unique_numbers
\* is iterated; find_map keeps the first value that has a partner.
find_sum(s, order, target) ==
    LET hits == {i \in 1..Len(order) :
                    LET key == target - order[i] IN
                    /\ key \in DOMAIN s.base_numbers
                    /\ (key # order[i] \/ s.base_numbers[key] > 1)}
    IN  IF hits = {} THEN Err
        ELSE LET value == order[Min(hits)] IN Ok(<<target - value, value>>)

RECURSIVE find_sum_of_n(_, _, _, _)
RECURSIVE find_map_from(_, _, _, _, _)

\* the closure of find_sum_of_n with >= in place of > in its multiplicity filter
find_map_from_ge(s, order, target, n, i) ==
    IF i > Len(order) THEN Err
    ELSE IF n = 0 THEN Fault
    ELSE LET value == order[i]
             r == find_sum_of_n(s, order, target - value, n - 1)
         IN  IF r.tag = "Fault" THEN Fault
             ELSE IF /\ r.tag = "Ok"
                     /\ GetOr0(s.base_numbers, value) >= Count(r.values, value)
                  THEN Ok(Append(r.values, value))
                  ELSE find_map_from(s, order, target, n, i + 1)

\* the find_map of find_sum_of_n (lib.rs:102-120), from position i of the
\* iteration on.  The closure computes n - 1 on a usize: at n = 0 a debug build
\* panics and a release build wraps to usize::MAX and recurses until the stack is
\* exhausted; either way the call ends abnormally.
find_map_from(s, order, target, n, i) ==
    IF i > Len(order) THEN Err
    ELSE IF n = 0 THEN Fault
    ELSE LET value == order[i]
             r == find_sum_of_n(s, order, target - value, n - 1)
         IN  IF r.tag = "Fault" THEN Fault
             ELSE IF /\ r.tag = "Ok"
                     /\ GetOr0(s.base_numbers, value) > Count(r.values, value)
                  THEN Ok(Append(r.values, value))
                  ELSE find_map_from(s, order, target, n, i + 1)

\* SumChecker::find_sum_of_n
find_sum_of_n(s, order, target, n) ==
    IF n = 2 THEN find_sum(s, order, target)
    ELSE find_map_from(s, order, target, n, 1)

----------------------------------------------------------------------------
(* Bounds of the handheld model *)

\* programs hold at most MaxProgLen instructions, with operands in
\* -MaxOperand..MaxOperand
MaxProgLen == 2
MaxOperand == 2

Operands == (0 - MaxOperand)..MaxOperand

\* enum ProgramLine (handheld_halting.rs:24-30)
ProgramLine == [op : {"Acc", "Jmp", "Nop"}, value : Operands]

Programs == UNION {[1..len -> ProgramLine] : len \in 0..MaxProgLen}

----------------------------------------------------------------------------
(* find_acc_when_infinite, handheld_halting.rs:119-149 *)

\* Result<isize, isize>
OkAcc(value) == [tag |-> "Ok", value |-> value]
ErrAcc(value) == [tag |-> "Err", value |-> value]
NoRet == [tag |-> "None", value |-> 0]

\* the locals after lines 120-123
SimStart ==
    [acc_value |-> 0, visited |-> {}, program_counter |-> 0,
     at |-> "loop", ret |-> NoRet]

\* a match in which Jmp falls through to the increment of line 145
execute_jmp_falls_through(instruction, s) ==
    CASE instruction.op = "Acc" ->
            [s EXCEPT !.acc_value = s.acc_value + instruction.value,
                      !.program_counter = s.program_counter + 1]
      [] instruction.op = "Jmp" ->
            [s EXCEPT !.program_counter = s.program_counter + instruction.value + 1]
      [] instruction.op = "Nop" ->
            [s EXCEPT !.program_counter = s.program_counter + 1]

\* a match in which Nop jumps by its operand as Jmp does
execute_nop_jumps(instruction, s) ==
    CASE instruction.op = "Acc" ->
            [s EXCEPT !.acc_value = s.acc_value + instruction.value,
                      !.program_counter = s.program_counter + 1]
      [] instruction.op = "Jmp" ->
            [s EXCEPT !.program_counter = s.program_counter + instruction.value]
      [] instruction.op = "Nop" ->
            [s EXCEPT !.program_counter = s.program_counter + instruction.value]

\* the match of lines 136-145 and the increment of line 145
execute(instruction, s) ==
    CASE instruction.op = "Acc" ->
            [s EXCEPT !.acc_value = s.acc_value + instruction.value,
                      !.program_counter = s.program_counter + 1]
      [] instruction.op = "Jmp" ->
            [s EXCEPT !.program_counter = s.program_counter + instruction.value]
      [] instruction.op = "Nop" ->
            [s EXCEPT !.program_counter = s.program_counter + 1]

\* a loop body without the usize::try_from guard of lines 131-134: a negative
\* program counter reaches program[index]
loop_iteration_unguarded(prog, s) ==
    LET size == Len(prog) IN
    IF ~(s.program_counter < size)
    THEN [s EXCEPT !.at = "returned", !.ret = OkAcc(s.acc_value)]
    ELSE IF s.program_counter \in s.visited
    THEN [s EXCEPT !.at = "returned", !.ret = ErrAcc(s.acc_value)]
    ELSE LET t == [s EXCEPT !.visited = s.visited \cup {s.program_counter}] IN
         IF s.program_counter + 1 \notin DOMAIN prog
         THEN [t EXCEPT !.at = "panicked"]
         ELSE execute(prog[s.program_counter + 1], t)

\* a loop body that never records the program counter (no line 129)
loop_iteration_no_insert(prog, s) ==
    LET size == Len(prog) IN
    IF ~(s.program_counter < size)
    THEN [s EXCEPT !.at = "returned", !.ret = OkAcc(s.acc_value)]
    ELSE IF s.program_counter \in s.visited
    THEN [s EXCEPT !.at = "returned", !.ret = ErrAcc(s.acc_value)]
    ELSE IF s.program_counter < 0
         THEN [s EXCEPT !.at = "returned", !.ret = ErrAcc(s.acc_value)]
         ELSE IF s.program_counter + 1 \notin DOMAIN prog
         THEN [s EXCEPT !.at = "panicked"]
         ELSE execute(prog[s.program_counter + 1], s)

\* one evaluation of the while condition and, when it holds, of the loop body
\* (lines 125-146); the function returns at line 127, 133 or 148.
\* program[index] panics when index is out of bounds.
loop_iteration(prog, s) ==
    LET size == Len(prog) IN
    IF ~(s.program_counter < size)
    THEN [s EXCEPT !.at = "returned", !.ret = OkAcc(s.acc_value)]
    ELSE IF s.program_counter \in s.visited
    THEN [s EXCEPT !.at = "returned", !.ret = ErrAcc(s.acc_value)]
    ELSE LET t == [s EXCEPT !.visited = s.visited \cup {s.program_counter}] IN
         IF s.program_counter < 0
         THEN [t EXCEPT !.at = "returned", !.ret = ErrAcc(s.acc_value)]
         ELSE IF s.program_counter + 1 \notin DOMAIN prog
         THEN [t EXCEPT !.at = "panicked"]
         ELSE execute(prog[s.program_counter + 1], t)

\* the whole call, as a function of the program
RECURSIVE run_loop(_, _)
run_loop(prog, s) ==
    IF s.at # "loop" THEN s ELSE run_loop(prog, loop_iteration(prog, s))

find_acc_when_infinite(prog) == run_loop(prog, SimStart).ret

\* lines 102-107: the clone of the program with the instruction at index flipped
new_program(prog, i) ==
    LET instruction == prog[i + 1] IN
    CASE instruction.op = "Jmp" ->
            [prog EXCEPT ![i + 1] = [op |-> "Nop", value |-> instruction.value]]
      [] instruction.op = "Nop" ->
            [prog EXCEPT ![i + 1] = [op |-> "Jmp", value |-> instruction.value]]
      [] OTHER -> prog

\* the indices whose flipped copy the simulator reports as halting normally
HaltingFlips(prog) ==
    {i \in 0..(Len(prog) - 1) :
        /\ prog[i + 1].op # "Acc"
        /\ find_acc_when_infinite(new_program(prog, i)).tag = "Ok"}

\* process_program as a function of the parsed program and of modify
\* (lines 87-116)
process_program(prog, m) ==
    LET r == find_acc_when_infinite(prog) IN
    IF ~m THEN [outcome |-> "reported", value |-> r.value]
    ELSE IF r.tag = "Ok" THEN [outcome |-> "halted", value |-> r.value]
    ELSE IF HaltingFlips(prog) = {} THEN [outcome |-> "no_repair", value |-> 0]
    ELSE [outcome |-> "repaired",
          value |-> find_acc_when_infinite(
                        new_program(prog, Min(HaltingFlips(prog)))).value]

----------------------------------------------------------------------------
(* process_program and the simulator as a state machine *)

simState ==
    [acc_value |-> acc_value, visited |-> visited,
     program_counter |-> program_counter, at |-> sim_at, ret |-> sim_ret]

\* an entry that keeps the accumulator of the previous run
EnterKeepsAcc(prog) ==
    /\ sim_program' = prog
    /\ acc_value' = acc_value
    /\ visited' = SimStart.visited
    /\ program_counter' = SimStart.program_counter
    /\ sim_at' = SimStart.at
    /\ sim_ret' = SimStart.ret
    /\ executed' = [i \in 0..(Len(prog) - 1) |-> 0]

\* the simulator is entered with prog as its argument (lines 119-123)
Enter(prog) ==
    /\ sim_program' = prog
    /\ acc_value' = SimStart.acc_value
    /\ visited' = SimStart.visited
    /\ program_counter' = SimStart.program_counter
    /\ sim_at' = SimStart.at
    /\ sim_ret' = SimStart.ret
    /\ executed' = [i \in 0..(Len(prog) - 1) |-> 0]

NoSim ==
    /\ sim_program = <<>>
    /\ acc_value = 0
    /\ visited = {}
    /\ program_counter = 0
    /\ sim_at = "idle"
    /\ sim_ret = NoRet
    /\ executed = <<>>
    /\ runs = {}

NoChecker ==
    /\ base_numbers = new.base_numbers
    /\ unique_numbers = new.unique_numbers
    /\ call = NoCall

NoHandheld ==
    /\ program = <<>>
    /\ modify = FALSE
    /\ pp = "none"
    /\ index = 0
    /\ result = 0
    /\ outcome = "none"
    /\ invocation = 0
    /\ NoSim

NoAdapter ==
    /\ adapters = <<>>
    /\ number_of_ones = 0
    /\ counting_ones = FALSE
    /\ combinations = 0
    /\ window = 0
    /\ adapter_at = "idle"

NoSeats ==
    /\ seating_arrangement = <<>>
    /\ tolerance = 0
    /\ adjacency_definition = "none"
    /\ previous_arrangement = <<>>
    /\ seat_at = "idle"

NoXmas ==
    /\ numbers = <<>>
    /\ preamble_length = 0
    /\ xmas_window = 0
    /\ missing = 0
    /\ xmas_at = "idle"

NoBags ==
    /\ rules = <<>>
    /\ sack_name = 0
    /\ rule_index = 0
    /\ reverse_lookup = <<>>
    /\ parents = {}
    /\ queue = <<>>
    /\ bag_count = 0
    /\ bag_at = "idle"

NoInside ==
    /\ inside_rules = <<>>
    /\ inside_sack_name = 0
    /\ inside_order = <<>>
    /\ bag_lookup = <<>>
    /\ cache = <<>>
    /\ inside_ret = [tag |-> "None", value |-> 0]
    /\ inside_at = "idle"

NoBoarding ==
    /\ boarding_passes = <<>>
    /\ boarding_ids = <<>>
    /\ boarding_ret = 0
    /\ boarding_at = "idle"

NoShuttle ==
    /\ schedule = <<>>
    /\ next_bus = <<>>
    /\ shuttle_ret = NoRet
    /\ shuttle_at = "idle"

NoGaps ==
    /\ gap_adapters = <<>>
    /\ gap_ones = 0
    /\ gap_threes = 0
    /\ gap_ret = 0
    /\ gap_at = "idle"

NoSight ==
    /\ sight_arrangement = <<>>
    /\ sight_x = 0
    /\ sight_y = 0
    /\ direction = 0
    /\ current = <<0, 0>>
    /\ sight_result = <<>>
    /\ read_at = {}
    /\ indexed = {}
    /\ sight_at = "idle"

NoParse ==
    /\ lines = <<>>
    /\ line_position = 0
    /\ parsed_lines = <<>>
    /\ parse_calls = <<>>
    /\ parse_ret = NoRet
    /\ parse_at = "idle"

NoSequence ==
    /\ seq_numbers = <<>>
    /\ seq_target = 0
    /\ seq_low = 0
    /\ seq_high = 0
    /\ seq_ret = NoRet
    /\ seq_at = "idle"

\* only the named command runs (main.rs:59-66)
OnlySum == NoHandheld /\ NoAdapter /\ NoSeats /\ NoXmas /\ NoBags /\
                        NoInside /\ NoBoarding /\ NoShuttle /\ NoGaps /\
        NoSight /\ NoParse /\ NoSequence
OnlyHandheld == NoChecker /\ NoAdapter /\ NoSeats /\ NoXmas /\ NoBags /\
                            NoInside /\ NoBoarding /\ NoShuttle /\ NoGaps /\
        NoSight /\ NoParse /\ NoSequence
OnlyAdapter == NoChecker /\ NoHandheld /\ NoSeats /\ NoXmas /\ NoBags /\
                            NoInside /\ NoBoarding /\ NoShuttle /\ NoGaps /\
        NoSight /\ NoParse /\ NoSequence
OnlySeats == NoChecker /\ NoHandheld /\ NoAdapter /\ NoXmas /\ NoBags /\
                            NoInside /\ NoBoarding /\ NoShuttle /\ NoGaps /\
        NoSight /\ NoParse /\ NoSequence
OnlyXmas == NoChecker /\ NoHandheld /\ NoAdapter /\ NoSeats /\ NoBags /\
                            NoInside /\ NoBoarding /\ NoShuttle /\ NoGaps /\
        NoSight /\ NoParse /\ NoSequence
OnlyBags == NoChecker /\ NoHandheld /\ NoAdapter /\ NoSeats /\ NoXmas /\
                            NoInside /\ NoBoarding /\ NoShuttle /\ NoGaps /\
        NoSight /\ NoParse /\ NoSequence
OnlyInside == NoChecker /\ NoHandheld /\ NoAdapter /\ NoSeats /\ NoXmas /\
                            NoBags /\ NoBoarding /\ NoShuttle /\ NoGaps /\
        NoSight /\ NoParse /\ NoSequence
OnlyBoarding == NoChecker /\ NoHandheld /\ NoAdapter /\ NoSeats /\ NoXmas /\
                        NoBags /\ NoInside /\ NoShuttle /\ NoGaps /\
    NoSight /\     NoParse /\ NoSequence
OnlyShuttle == NoChecker /\ NoHandheld /\ NoAdapter /\ NoSeats /\ NoXmas /\
                    NoBags /\ NoInside /\ NoBoarding /\ NoGaps /\ NoSight /\
        NoParse /\ NoSequence
OnlyGaps == NoChecker /\ NoHandheld /\ NoAdapter /\ NoSeats /\ NoXmas /\
                NoBags /\ NoInside /\ NoBoarding /\ NoShuttle /\ NoSight /\
        NoParse /\ NoSequence
OnlySight == NoChecker /\ NoHandheld /\ NoAdapter /\ NoSeats /\ NoXmas /\
            NoBags /\ NoInside /\ NoBoarding /\ NoShuttle /\ NoGaps /\
    NoParse /\ NoSequence
OnlyParse == NoChecker /\ NoHandheld /\ NoAdapter /\ NoSeats /\ NoXmas /\
        NoBags /\ NoInside /\ NoBoarding /\ NoShuttle /\ NoGaps /\ NoSight /\
    NoSequence
OnlySequence == NoChecker /\ NoHandheld /\ NoAdapter /\ NoSeats /\ NoXmas /\
    NoBags /\ NoInside /\ NoBoarding /\ NoShuttle /\ NoGaps /\ NoSight /\
    NoParse

\* the program has been read and parsed (lines 85-86)
InitSim ==
    /\ program \in Programs
    /\ modify \in BOOLEAN
    /\ pp = "start"
    /\ index = 0
    /\ result = 0
    /\ outcome = "none"
    /\ invocation = 1
    /\ NoSim
    /\ OnlyHandheld

\* line 88: find_acc_when_infinite(&program)
CallOriginal ==
    /\ pp = "start"
    /\ pp' = "original"
    /\ Enter(program)
    /\ UNCHANGED <<program, modify, index, result, outcome, invocation, runs>>
    /\ UNCHANGED exceptHandheld

\* one iteration of the simulator's loop, or its return
LoopIteration ==
    /\ sim_at = "loop"
    /\ LET t == loop_iteration(sim_program, simState) IN
        /\ acc_value' = t.acc_value
        /\ visited' = t.visited
        /\ program_counter' = t.program_counter
        /\ sim_at' = t.at
        /\ sim_ret' = t.ret
        /\ executed' =
              IF t.at = "loop"
              THEN [executed EXCEPT ![program_counter] = @ + 1]
              ELSE executed
        /\ runs' =
              IF t.at = "returned"
              THEN runs \cup {[program |-> sim_program, ret |-> t.ret]}
              ELSE runs
    /\ UNCHANGED <<sim_program>>
    /\ UNCHANGED ppVars
    /\ UNCHANGED exceptHandheld

\* a process_program that starts the repair search whatever the first run returned
ReturnOriginalAlwaysSearches ==
    /\ pp = "original"
    /\ sim_at = "returned"
    /\ IF ~modify
       THEN /\ result' = sim_ret.value
            /\ outcome' = "reported"
            /\ pp' = "done"
            /\ index' = index
       ELSE /\ pp' = "search"
            /\ index' = 0
            /\ UNCHANGED <<result, outcome>>
    /\ sim_at' = "idle"
    /\ UNCHANGED <<program, modify, invocation, runs>>
    /\ UNCHANGED <<sim_program, acc_value, visited, program_counter, sim_ret, executed>>
    /\ UNCHANGED exceptHandheld

\* lines 90-99: what process_program does with the result of the first run
ReturnOriginal ==
    /\ pp = "original"
    /\ sim_at = "returned"
    /\ IF ~modify
       THEN /\ result' = sim_ret.value
            /\ outcome' = "reported"
            /\ pp' = "done"
            /\ index' = index
       ELSE IF sim_ret.tag = "Ok"
       THEN /\ result' = sim_ret.value
            /\ outcome' = "halted"
            /\ pp' = "done"
            /\ index' = index
       ELSE /\ pp' = "search"
            /\ index' = 0
            /\ UNCHANGED <<result, outcome>>
    /\ sim_at' = "idle"
    /\ UNCHANGED <<program, modify, invocation, runs>>
    /\ UNCHANGED <<sim_program, acc_value, visited, program_counter, sim_ret, executed>>
    /\ UNCHANGED exceptHandheld

\* a repair search that flips the instruction in the parsed program itself
SearchStepInPlace ==
    /\ pp = "search"
    /\ IF index >= Len(program)
       THEN /\ result' = 0
            /\ outcome' = "no_repair"
            /\ pp' = "done"
            /\ UNCHANGED <<program, index, runs>>
            /\ UNCHANGED simVars
       ELSE IF program[index + 1].op = "Acc"
       THEN /\ index' = index + 1
            /\ UNCHANGED <<program, pp, result, outcome, runs>>
            /\ UNCHANGED simVars
       ELSE /\ pp' = "candidate"
            /\ program' = new_program(program, index)
            /\ Enter(new_program(program, index))
            /\ UNCHANGED <<index, result, outcome, runs>>
    /\ UNCHANGED <<modify, invocation>>
    /\ UNCHANGED exceptHandheld

\* lines 101-108 and 114: the head of the for loop, the flip, the call
SearchStep ==
    /\ pp = "search"
    /\ IF index >= Len(program)
       THEN /\ result' = 0
            /\ outcome' = "no_repair"
            /\ pp' = "done"
            /\ UNCHANGED <<index, runs>>
            /\ UNCHANGED simVars
       ELSE IF program[index + 1].op = "Acc"
       THEN /\ index' = index + 1
            /\ UNCHANGED <<pp, result, outcome, runs>>
            /\ UNCHANGED simVars
       ELSE /\ pp' = "candidate"
            /\ Enter(new_program(program, index))
            /\ UNCHANGED <<index, result, outcome, runs>>
    /\ UNCHANGED <<program, modify, invocation>>
    /\ UNCHANGED exceptHandheld

\* a repair search that goes on after a candidate halted, and so keeps the last
ReturnCandidateKeepsLast ==
    /\ pp = "candidate"
    /\ sim_at = "returned"
    /\ IF sim_ret.tag = "Ok" /\ ~(\E j \in (index + 1)..(Len(program) - 1) :
                                    /\ program[j + 1].op # "Acc"
                                    /\ find_acc_when_infinite(new_program(program, j)).tag = "Ok")
       THEN /\ result' = sim_ret.value
            /\ outcome' = "repaired"
            /\ pp' = "done"
            /\ index' = index
       ELSE /\ pp' = "search"
            /\ index' = index + 1
            /\ UNCHANGED <<result, outcome>>
    /\ sim_at' = "idle"
    /\ UNCHANGED <<program, modify, invocation, runs>>
    /\ UNCHANGED <<sim_program, acc_value, visited, program_counter, sim_ret, executed>>
    /\ UNCHANGED exceptHandheld

\* lines 108-111: what the search does with the result of a candidate's run
ReturnCandidate ==
    /\ pp = "candidate"
    /\ sim_at = "returned"
    /\ IF sim_ret.tag = "Ok"
       THEN /\ result' = sim_ret.value
            /\ outcome' = "repaired"
            /\ pp' = "done"
            /\ index' = index
       ELSE /\ pp' = "search"
            /\ index' = index + 1
            /\ UNCHANGED <<result, outcome>>
    /\ sim_at' = "idle"
    /\ UNCHANGED <<program, modify, invocation, runs>>
    /\ UNCHANGED <<sim_program, acc_value, visited, program_counter, sim_ret, executed>>
    /\ UNCHANGED exceptHandheld

\* the command is run once more on the same file, with or without --modify
\* (run, lines 61-82; part1 and part2 read the same input)
RunAgain ==
    /\ pp = "done"
    /\ invocation = 1
    /\ invocation' = 2
    /\ modify' \in BOOLEAN
    /\ pp' = "start"
    /\ index' = 0
    /\ result' = 0
    /\ outcome' = "none"
    /\ UNCHANGED <<program, runs>>
    /\ UNCHANGED simVars
    /\ UNCHANGED exceptHandheld

NextSim ==
    \/ CallOriginal
    \/ LoopIteration
    \/ ReturnOriginal
    \/ SearchStep
    \/ ReturnCandidate

SpecSim == InitSim /\ [][NextSim]_vars

\* the program runs to its end: nothing else is scheduled
FairSpecSim == SpecSim /\ WF_vars(NextSim)

NextTwice == NextSim \/ RunAgain

SpecTwice == InitSim /\ [][NextTwice]_vars

----------------------------------------------------------------------------
(* The checker as a state machine *)

\* how many numbers the checker holds, counted with multiplicity
RECURSIVE SumCounts(_)
SumCounts(map) ==
    IF DOMAIN map = {} THEN 0
    ELSE LET k == CHOOSE k \in DOMAIN map : TRUE
         IN  map[k] + SumCounts(MapRemove(map, k))

InitSum ==
    /\ NoChecker
    /\ OnlySum

AddNumber(number) ==
    LET s == add_number(self, number) IN
    /\ SumCounts(base_numbers) < MaxHeld
    /\ base_numbers' = s.base_numbers
    /\ unique_numbers' = s.unique_numbers
    /\ call' = [op |-> "add_number", arg |-> number, n |-> 0, order |-> <<>>,
                count |-> GetOr0(base_numbers, number), ret |-> Unit]
    /\ UNCHANGED exceptSum

RemoveNumber(number) ==
    LET s == remove_number(self, number) IN
    /\ base_numbers' = s.base_numbers
    /\ unique_numbers' = s.unique_numbers
    /\ call' = [op |-> "remove_number", arg |-> number, n |-> 0, order |-> <<>>,
                count |-> GetOr0(base_numbers, number), ret |-> Unit]
    /\ UNCHANGED exceptSum

\* A query leaves the checker as it is, so a second query in a row reaches only
\* states that the first one reaches too: the model asks once after each change.
FindSumOfN(target, n, order) ==
    /\ call.op # "find_sum_of_n"
    /\ call' = [op |-> "find_sum_of_n", arg |-> target, n |-> n, order |-> order,
                count |-> 0, ret |-> find_sum_of_n(self, order, target, n)]
    /\ UNCHANGED <<base_numbers, unique_numbers>>
    /\ UNCHANGED exceptSum

NextSum ==
    \/ \E number \in Values : AddNumber(number)
    \/ \E number \in Values : RemoveNumber(number)
    \/ \E target \in Targets, n \in 0..MaxN, order \in Orders(unique_numbers) :
          FindSumOfN(target, n, order)

SpecSum == InitSum /\ [][NextSum]_vars

\* the input vectors of with_vec, one for each multiset: copies[v] copies of v
RECURSIVE VecOf(_, _)
VecOf(copies, keys) ==
    IF keys = {} THEN <<>>
    ELSE LET k == Min(keys)
         IN  [i \in 1..copies[k] |-> k] \o VecOf(copies, keys \ {k})

Inputs ==
    {VecOf(copies, WideValues) : copies \in [WideValues -> 0..WideCopies]}

\* encoding_error.rs:126-127: SumChecker::with_vec(input).find_sum_of_n(target, n)
InitFind ==
    \E input \in Inputs :
        /\ Len(input) <= WideHeld
        /\ base_numbers = with_vec(input).base_numbers
        /\ unique_numbers = with_vec(input).unique_numbers
        /\ call = NoCall
        /\ OnlySum

NextFind ==
    \E target \in WideTargets, n \in 0..WideN, order \in Orders(unique_numbers) :
        FindSumOfN(target, n, order)

SpecFind == InitFind /\ [][NextFind]_vars

----------------------------------------------------------------------------
(* Claims about SumChecker *)

\* the multiset of the held numbers has an n-element sub-multiset summing to target
RECURSIVE Pick(_, _, _, _)
Pick(map, keys, target, n) ==
    IF keys = {} THEN target = 0 /\ n = 0
    ELSE LET k == CHOOSE k \in keys : TRUE IN
         \E c \in 0..map[k] :
            /\ c <= n
            /\ Pick(map, keys \ {k}, target - c * k, n - c)

ExistsCombination(map, target, n) == Pick(map, DOMAIN map, target, n)

\* C1: whenever find_sum_of_n returns a combination, it has exactly n elements,
\* they sum to target, and no value occurs in it more often than it is held.
C1_Soundness ==
    (call.op = "find_sum_of_n" /\ call.ret.tag = "Ok") =>
        /\ Len(call.ret.values) = call.n
        /\ SumSeq(call.ret.values) = call.arg
        /\ \A v \in DOMAIN base_numbers \cup Values :
              Count(call.ret.values, v) <= GetOr0(base_numbers, v)

\* a returned combination of three or more numbers that uses every copy of a
\* value held more than once
C1_Witness ==
    /\ call.op = "find_sum_of_n"
    /\ call.ret.tag = "Ok"
    /\ call.n >= 3
    /\ \E v \in Values :
          /\ GetOr0(base_numbers, v) >= 2
          /\ Count(call.ret.values, v) = base_numbers[v]

\* C2: for n >= 2, whenever some n-element sub-multiset of the held numbers sums
\* to target, find_sum_of_n returns a combination, whatever the scan order.
C2_Completeness ==
    (/\ call.op = "find_sum_of_n"
     /\ call.n >= 2
     /\ ExistsCombination(base_numbers, call.arg, call.n))
        => call.ret.tag = "Ok"

\* C7: a value is in unique_numbers exactly when base_numbers maps it to a
\* count above 0, and base_numbers never stores a count of 0.
C7_Consistent ==
    /\ \A v \in Values : (v \in unique_numbers) <=> (GetOr0(base_numbers, v) > 0)
    /\ unique_numbers \subseteq Values
    /\ DOMAIN base_numbers \subseteq Values
    /\ \A k \in DOMAIN base_numbers : base_numbers[k] # 0

\* remove_number has just taken the last copy of a value out of a checker that
\* still holds other numbers
C7_Witness ==
    /\ call.op = "remove_number"
    /\ call.count = 1
    /\ call.arg \notin unique_numbers
    /\ call.arg \notin DOMAIN base_numbers
    /\ unique_numbers # {}
    /\ \E v \in unique_numbers : base_numbers[v] >= 2

----------------------------------------------------------------------------
(* Claims about the handheld simulator and the repair search *)

\* C3: every run of the simulator ends, in one of the two outcomes Ok (halts
\* normally) and Err (loop detected), and its result carries which one.
C3_Terminates ==
    [](sim_at = "loop" =>
          <>(sim_at = "returned" /\ sim_ret.tag \in {"Ok", "Err"}))

\* a run that executed a jump backwards or by 0 and has returned
C3_Witness ==
    /\ sim_at = "returned"
    /\ sim_ret.tag \in {"Ok", "Err"}
    /\ \E i \in DOMAIN executed :
          /\ executed[i] = 1
          /\ sim_program[i + 1].op = "Jmp"
          /\ sim_program[i + 1].value <= 0

\* C4: Ok is returned only with the program counter equal to the program
\* length; a program counter below 0 or above the length ends the run with Err,
\* and no run ends in an index fault.
C4_HaltsOnlyAtLength ==
    /\ sim_at # "panicked"
    /\ sim_at = "returned" =>
          /\ sim_ret.tag = "Ok" => program_counter = Len(sim_program)
          /\ (program_counter < 0 \/ program_counter > Len(sim_program))
                => sim_ret.tag = "Err"

\* C5: in modify mode, when the unmodified program loop-detects and some flip
\* halts, the search returns the accumulator of the halting flip with the
\* smallest index; every candidate is the program with one Jmp or Nop flipped,
\* never an Acc.
C5_FirstHaltingFlip ==
    /\ (/\ pp = "done"
        /\ modify
        /\ find_acc_when_infinite(program).tag = "Err"
        /\ HaltingFlips(program) # {})
          => /\ outcome = "repaired"
             /\ index = Min(HaltingFlips(program))
             /\ result = find_acc_when_infinite(
                            new_program(program, Min(HaltingFlips(program)))).value
    /\ pp = "candidate"
          => /\ program[index + 1].op # "Acc"
             /\ sim_program = new_program(program, index)
             /\ sim_program # program

\* the search returned the first of two or more halting flips, after skipping
\* or rejecting nothing with a smaller index that halts
C5_Witness ==
    /\ pp = "done"
    /\ modify
    /\ outcome = "repaired"
    /\ Cardinality(HaltingFlips(program)) >= 2
    /\ index = Min(HaltingFlips(program))

\* C6: when no flip halts, what process_program returns differs from what it
\* returns for every program whose repair succeeds.
C6_NoRepairDistinguishable ==
    (pp = "done" /\ outcome = "no_repair") =>
        \A p \in Programs :
            process_program(p, TRUE).outcome = "repaired"
                => process_program(p, TRUE).value # result

\* C8: two finished runs of the simulator on the same program returned the same
\* Result: the same tag and the same accumulator.
C8_Deterministic ==
    \A r1 \in runs : \A r2 \in runs :
        r1.program = r2.program => r1.ret = r2.ret

\* the command ran twice and the second run of the unmodified program, which
\* changes the accumulator, has returned
C8_Witness ==
    /\ invocation = 2
    /\ pp = "original"
    /\ sim_at = "returned"
    /\ sim_ret.value # 0
    /\ [program |-> program, ret |-> sim_ret] \in runs

\* C9: Acc N gives (a + N, p + 1), Jmp N gives (a, p + N), Nop N gives
\* (a, p + 1); the accumulator changes on Acc only.
C9_StepSemantics ==
    [][(sim_at = "loop" /\ sim_at' = "loop") =>
          LET instruction == sim_program[program_counter + 1] IN
          /\ instruction.op = "Acc" =>
                /\ acc_value' = acc_value + instruction.value
                /\ program_counter' = program_counter + 1
          /\ instruction.op = "Jmp" =>
                /\ acc_value' = acc_value
                /\ program_counter' = program_counter + instruction.value
          /\ instruction.op = "Nop" =>
                /\ acc_value' = acc_value
                /\ program_counter' = program_counter + 1]_vars

\* a run that has executed a Nop whose operand is not 1 and a Jmp whose operand
\* is not 1
C9_Witness ==
    /\ sim_at = "loop"
    /\ \E i \in DOMAIN executed :
          /\ executed[i] = 1
          /\ sim_program[i + 1].op = "Nop"
          /\ sim_program[i + 1].value # 1
    /\ \E j \in DOMAIN executed :
          /\ executed[j] = 1
          /\ sim_program[j + 1].op = "Jmp"
          /\ sim_program[j + 1].value # 1

\* C10 as stated: no index is executed twice, and Err is returned exactly when
\* the program counter equals an index already visited, with the accumulator of
\* that moment.
C10_ErrExactlyOnRevisit ==
    [][sim_at = "loop" =>
          /\ \A i \in DOMAIN executed' : executed'[i] <= 1
          /\ (sim_at' = "returned" /\ sim_ret'.tag = "Err")
                <=> program_counter \in visited
          /\ sim_at' = "returned" => sim_ret'.value = acc_value]_vars

\* C10 as amended: no index is executed twice, and Err is returned exactly when
\* the program counter equals an index already visited or is negative, with the
\* accumulator of that moment.
C10_LoopDetection ==
    [][sim_at = "loop" =>
          /\ \A i \in DOMAIN executed' : executed'[i] <= 1
          /\ (sim_at' = "returned" /\ sim_ret'.tag = "Err")
                <=> (program_counter \in visited \/ program_counter < 0)
          /\ sim_at' = "returned" => sim_ret'.value = acc_value]_vars

\* a run returned Err on coming back to an index it had executed, with an
\* accumulator that an Acc had changed
C10_Witness ==
    /\ sim_at = "returned"
    /\ sim_ret.tag = "Err"
    /\ program_counter \in DOMAIN executed
    /\ executed[program_counter] = 1
    /\ sim_ret.value # 0

----------------------------------------------------------------------------
\* q is p with exactly one instruction flipped between Jmp and Nop, the operand
\* kept
OneFlip(p, q) ==
    /\ Len(q) = Len(p)
    /\ \E i \in 1..Len(p) :
          /\ \A j \in 1..Len(p) : j # i => q[j] = p[j]
          /\ q[i].value = p[i].value
          /\ \/ p[i].op = "Jmp" /\ q[i].op = "Nop"
             \/ p[i].op = "Nop" /\ q[i].op = "Jmp"

\* C11: no step of process_program changes the parsed program, and every
\* candidate handed to the simulator by the repair search is the parsed program
\* with exactly one instruction flipped between Jmp and Nop, operand kept.
C11_CandidatesAreSingleFlips ==
    [][/\ program' = program
       /\ pp' = "candidate" => OneFlip(program', sim_program')]_vars

\* the search is at its second candidate: an earlier candidate has run, and the
\* one being simulated is not derived from it
C11_Witness ==
    /\ pp = "candidate"
    /\ \E r \in runs : r.program # program /\ r.program # sim_program

----------------------------------------------------------------------------
\* C12: a call with n = 2 returns a pair exactly when two held values v and w
\* sum to the target with v # w or v held at least twice; the pair returned
\* sums to the target, consists of held values, and is (v, v) only for a v held
\* at least twice.
C12_BaseCase ==
    (call.op = "find_sum_of_n" /\ call.n = 2) =>
        /\ call.ret.tag \in {"Ok", "Err"}
        /\ call.ret.tag = "Ok" <=>
              \E v \in DOMAIN base_numbers, w \in DOMAIN base_numbers :
                  /\ v + w = call.arg
                  /\ (v # w \/ base_numbers[v] >= 2)
        /\ call.ret.tag = "Ok" =>
              LET v == call.ret.values[1]
                  w == call.ret.values[2]
              IN  /\ Len(call.ret.values) = 2
                  /\ v + w = call.arg
                  /\ v \in DOMAIN base_numbers
                  /\ w \in DOMAIN base_numbers
                  /\ v = w => base_numbers[v] >= 2

\* a value held once is half of the target, no other pair sums to the target,
\* and the call reports not found
C12_Witness ==
    /\ call.op = "find_sum_of_n"
    /\ call.n = 2
    /\ call.ret.tag = "Err"
    /\ \E v \in DOMAIN base_numbers : v + v = call.arg /\ base_numbers[v] = 1

----------------------------------------------------------------------------
\* C13: find_sum_of_n is total: for every held multiset, every target and every
\* n (0 and 1 included) the call returns either a combination of exactly n
\* numbers that sum to the target, or the not-found error; it never faults.
C13_Total ==
    call.op = "find_sum_of_n" =>
        /\ call.ret.tag \in {"Ok", "Err"}
        /\ call.ret.tag = "Ok" =>
              /\ Len(call.ret.values) = call.n
              /\ SumSeq(call.ret.values) = call.arg

----------------------------------------------------------------------------
\* C14: in modify mode the first program simulated is the parsed one; the
\* repair search is entered only after that run returned Err; and when that
\* run returns Ok, process_program returns its accumulator and the simulator
\* never receives any other program.
C14_OriginalFirst ==
    /\ pp = "original" =>
          /\ sim_program = program
          /\ sim_at = "loop" => runs = {}
          /\ \A r \in runs : r.program = program
    /\ pp \in {"search", "candidate"} =>
          /\ modify
          /\ \E r \in runs : r.program = program /\ r.ret.tag = "Err"
    /\ (modify /\ find_acc_when_infinite(program).tag = "Ok") =>
          /\ pp \notin {"search", "candidate"}
          /\ sim_program \in {<<>>, program}
          /\ \A r \in runs : r.program = program
          /\ pp = "done" =>
                /\ outcome = "halted"
                /\ result = find_acc_when_infinite(program).value

\* modify mode has returned the accumulator of a halting program that holds an
\* instruction the search could have flipped
C14_Witness ==
    /\ modify
    /\ pp = "done"
    /\ outcome = "halted"
    /\ result # 0
    /\ \E i \in 1..Len(program) : program[i].op # "Acc"

----------------------------------------------------------------------------
(* process_program on the sample program of the puzzle *)

Acc(value) == [op |-> "Acc", value |-> value]
Jmp(value) == [op |-> "Jmp", value |-> value]
Nop(value) == [op |-> "Nop", value |-> value]

SampleProgram ==
    <<Nop(0), Acc(1), Jmp(4), Acc(3), Jmp(-3), Acc(-99), Acc(1), Jmp(-4), Acc(6)>>

\* the sample has been read and parsed (lines 85-86), with or without --modify
InitSample ==
    /\ program = SampleProgram
    /\ modify \in BOOLEAN
    /\ pp = "start"
    /\ index = 0
    /\ result = 0
    /\ outcome = "none"
    /\ invocation = 1
    /\ NoSim
    /\ OnlyHandheld

SpecSample == InitSample /\ [][NextTwice]_vars

\* C15: on the sample program the first run returns Err with accumulator 5,
\* which is what process_program reports without modify; with modify it
\* returns 8, from the copy with index 7 flipped, and no copy flipped at a
\* smaller index returns Ok.
C15_Sample ==
    /\ (pp = "original" /\ sim_at = "returned") => sim_ret = ErrAcc(5)
    /\ (pp = "done" /\ ~modify) => outcome = "reported" /\ result = 5
    /\ (pp = "done" /\ modify) =>
          /\ outcome = "repaired"
          /\ result = 8
          /\ index = 7
          /\ sim_program = [SampleProgram EXCEPT ![8] = Nop(-4)]
          /\ sim_ret = OkAcc(8)
          /\ \A r \in runs : r.ret.tag = "Ok" => r.program = sim_program
    /\ pp = "candidate" => index <= 7
    /\ find_acc_when_infinite(SampleProgram) = ErrAcc(5)
    /\ HaltingFlips(SampleProgram) = {7}
    /\ process_program(SampleProgram, TRUE) = [outcome |-> "repaired", value |-> 8]

\* the repair search has returned on the sample program
C15_Witness ==
    /\ program = SampleProgram
    /\ modify
    /\ pp = "done"
    /\ outcome = "repaired"
    /\ invocation = 1

----------------------------------------------------------------------------
(* The checker on the sample expense report of the puzzle *)

SampleReport == <<1721, 979, 366, 299, 675, 1456>>
SampleTarget == 2020
SampleNs == {2, 3}

\* SumChecker::with_vec(&SampleReport)
InitReport ==
    /\ base_numbers = with_vec(SampleReport).base_numbers
    /\ unique_numbers = with_vec(SampleReport).unique_numbers
    /\ call = NoCall
    /\ OnlySum

\* find_sum_of_n(&2020, n), in every order in which unique_numbers can iterate
NextReport ==
    \E n \in SampleNs, order \in Orders(unique_numbers) :
        FindSumOfN(SampleTarget, n, order)

SpecReport == InitReport /\ [][NextReport]_vars

RECURSIVE Product(_)
Product(s) == IF s = <<>> THEN 1 ELSE Head(s) * Product(Tail(s))

\* the elements of a sequence with their multiplicities
BagOf(s) == [v \in {s[i] : i \in 1..Len(s)} |-> Count(s, v)]

\* C16: on the sample report with target 2020, whatever the scan order,
\* n = 2 returns the elements 1721 and 299 (product 514579) and n = 3 returns
\* the elements 979, 366 and 675 (product 241861950).
C16_SampleReport ==
    call.op = "find_sum_of_n" =>
        /\ call.ret.tag = "Ok"
        /\ call.n = 2 =>
              /\ BagOf(call.ret.values) = BagOf(<<1721, 299>>)
              /\ Product(call.ret.values) = 514579
        /\ call.n = 3 =>
              /\ BagOf(call.ret.values) = BagOf(<<979, 366, 675>>)
              /\ Product(call.ret.values) = 241861950

\* the triple has been found in a scan that starts with a value outside it
C16_Witness ==
    /\ call.op = "find_sum_of_n"
    /\ call.n = 3
    /\ call.order[1] = 1721
    /\ call.ret.tag = "Ok"
    /\ base_numbers = with_vec(SampleReport).base_numbers

----------------------------------------------------------------------------
(* Adapter chains (src/src/adapter_array.rs) *)

\* the input file holds distinct adapters rated 1..MaxJolt
MaxJolt == 5

\* the comment of adapter_array.rs:138: the closed form was tried up to n = 5
TestedUpTo == 5

Max(S) == CHOOSE x \in S : \A y \in S : y <= x

\* Vec::sort on a vector without repeated values
RECURSIVE SortedSeq(_)
SortedSeq(S) ==
    IF S = {} THEN <<>>
    ELSE <<Min(S)>> \o SortedSeq(S \ {Min(S)})

\* lines 85-95 of process_adapters: push 0, push max + 3, sort
ChainOf(input) ==
    LET with_outlet == input \cup {0}
    IN  SortedSeq(with_outlet \cup {Max(with_outlet) + 3})

\* lines 141-143
number_of_ways_consecutives_ones_can_be_arranged(n) == (n * n - n + 2) \div 2

\* process_adapters hands the chain to
\* find_number_of_unique_valid_adapter_combinations (lines 96-100, 118-120)
InitAdapter ==
    /\ \E input \in SUBSET (1..MaxJolt) : adapters = ChainOf(input)
    /\ number_of_ones = 0
    /\ counting_ones = FALSE
    /\ combinations = 1
    /\ window = 1
    /\ adapter_at = "loop"
    /\ OnlyAdapter

\* one pass through the body of the for loop (lines 122-133)
AdapterStep ==
    /\ adapter_at = "loop"
    /\ window < Len(adapters)
    /\ LET diff == adapters[window + 1] - adapters[window]
           closes == diff = 3 /\ counting_ones
           ones == IF closes THEN 0 ELSE number_of_ones
           counting == IF closes THEN FALSE ELSE counting_ones
       IN  /\ combinations' =
                 IF closes
                 THEN combinations *
                      number_of_ways_consecutives_ones_can_be_arranged(number_of_ones)
                 ELSE combinations
           /\ number_of_ones' = IF diff = 1 THEN ones + 1 ELSE ones
           /\ counting_ones' = IF diff = 1 THEN TRUE ELSE counting
    /\ window' = window + 1
    /\ UNCHANGED <<adapters, adapter_at>>
    /\ UNCHANGED exceptAdapter

\* the windows are used up: line 135 returns combinations
AdapterReturn ==
    /\ adapter_at = "loop"
    /\ window >= Len(adapters)
    /\ adapter_at' = "returned"
    /\ UNCHANGED <<adapters, number_of_ones, counting_ones, combinations, window>>
    /\ UNCHANGED exceptAdapter

NextAdapter ==
    \/ AdapterStep
    \/ AdapterReturn

SpecAdapter == InitAdapter /\ [][NextAdapter]_vars

\* the subsets of a sorted chain that keep both of its ends and in which
\* neighbouring kept values differ by at most 3
ValidChains(chain) ==
    LET all == {chain[i] : i \in 1..Len(chain)}
    IN  {kept \in SUBSET all :
            /\ chain[1] \in kept
            /\ chain[Len(chain)] \in kept
            /\ \A x \in kept :
                  x = chain[Len(chain)] \/ \E y \in kept : y > x /\ y - x <= 3}

\* C17: the value returned for a chain is the number of its valid sub-chains,
\* and the closed form equals that number on a run of n gaps of 1, n = 1..5.
C17_CountsValidChains ==
    /\ adapter_at = "returned" => combinations = Cardinality(ValidChains(adapters))
    /\ \A n \in 1..TestedUpTo :
          number_of_ways_consecutives_ones_can_be_arranged(n)
              = Cardinality(ValidChains([i \in 1..(n + 1) |-> i - 1]))

----------------------------------------------------------------------------
(* Seating system (src/src/seating_system.rs) *)

\* a layout has at most MaxTiles tiles; tolerance ranges over 0..MaxTolerance
MaxTiles == 4
MaxTolerance == 3

\* enum FloorTile (lines 18-22)
Floor == [kind |-> "Floor", occupied |-> FALSE]
Seat(occupied) == [kind |-> "Seat", occupied |-> occupied]
FloorTile == {Floor, Seat(FALSE), Seat(TRUE)}

\* enum AdjacencyDefinition (lines 24-28)
AdjacencyDefinition == {"DirectlyNextTo", "LineOfSight"}

\* Option<usize> and Option<FloorTile>
None == [tag |-> "None"]
Some(value) == [tag |-> "Some", value |-> value]

\* the tile at column x of row y, both counted from 0 as in the code
TileAt(arrangement, x, y) == arrangement[y + 1][x + 1]

\* the rectangular layouts parse_lines can deliver: rows x columns tiles, every
\* row non-empty (many1, line 401)
Shapes ==
    {shape \in (0..MaxTiles) \X (1..MaxTiles) : shape[1] * shape[2] <= MaxTiles}

Layouts ==
    UNION {[1..shape[1] -> [1..shape[2] -> FloorTile]] : shape \in Shapes}

\* lines 193-201
count_occupided_seats(seats) ==
    Cardinality({i \in 1..Len(seats) : seats[i] = Seat(TRUE)})

\* lines 319-350.  x_move and y_move are Sub::sub, Mul::mul or Add::add applied
\* to (current, 1): they are given by the step -1, 0 or 1 they amount to.
RECURSIVE traverse_until_seat(_, _, _, _, _, _, _)
traverse_until_seat(x, y, arrangement, x_stop, y_stop, x_move, y_move) ==
    IF \/ (x_stop.tag = "Some" /\ x = x_stop.value)
       \/ (y_stop.tag = "Some" /\ y = y_stop.value)
    THEN None
    ELSE LET current_x == x + x_move
             current_y == y + y_move
         IN  IF TileAt(arrangement, current_x, current_y).kind = "Seat"
             THEN Some(TileAt(arrangement, current_x, current_y))
             ELSE traverse_until_seat(current_x, current_y, arrangement,
                                      x_stop, y_stop, x_move, y_move)

\* Option::iter().for_each(push): the tiles of the options that are Some
RECURSIVE Flatten(_)
Flatten(options) ==
    IF options = <<>> THEN <<>>
    ELSE (IF Head(options).tag = "Some" THEN <<Head(options).value>> ELSE <<>>)
         \o Flatten(Tail(options))

\* lines 203-317
get_line_of_sight_seats(x, y, arrangement) ==
    LET y_max == Len(arrangement) - 1
        x_max == Len(arrangement[1]) - 1
    IN  Flatten(<<
            traverse_until_seat(x, y, arrangement, Some(0), Some(0), -1, -1),
            traverse_until_seat(x, y, arrangement, None, Some(0), 0, -1),
            traverse_until_seat(x, y, arrangement, Some(x_max), Some(0), 1, -1),
            traverse_until_seat(x, y, arrangement, Some(0), None, -1, 0),
            traverse_until_seat(x, y, arrangement, Some(x_max), None, 1, 0),
            traverse_until_seat(x, y, arrangement, Some(0), Some(y_max), -1, 1),
            traverse_until_seat(x, y, arrangement, None, Some(y_max), 0, 1),
            traverse_until_seat(x, y, arrangement, Some(x_max), Some(y_max), 1, 1)>>)

\* lines 383-398; row is a row of the layout
find_adjacent_tiles_in_row(x, row, include_x) ==
    (IF x > 0 THEN <<row[x]>> ELSE <<>>)
    \o (IF include_x THEN <<row[x + 1]>> ELSE <<>>)
    \o (IF x < Len(row) - 1 THEN <<row[x + 2]>> ELSE <<>>)

\* lines 352-381
get_adjacent_tiles(x, y, arrangement) ==
    (IF y > 0 THEN find_adjacent_tiles_in_row(x, arrangement[y], TRUE) ELSE <<>>)
    \o find_adjacent_tiles_in_row(x, arrangement[y + 1], FALSE)
    \o (IF y < Len(arrangement) - 1
        THEN find_adjacent_tiles_in_row(x, arrangement[y + 2], TRUE)
        ELSE <<>>)

\* lines 159-166 and 173-180
adjacent_tiles(x, y, arrangement, definition) ==
    IF definition = "DirectlyNextTo"
    THEN get_adjacent_tiles(x, y, arrangement)
    ELSE get_line_of_sight_seats(x, y, arrangement)

\* lines 146-191
iterate_seats(arrangement, tol, definition) ==
    [row \in 1..Len(arrangement) |->
        [column \in 1..Len(arrangement[row]) |->
            LET tile == arrangement[row][column]
                occupied == count_occupided_seats(
                                adjacent_tiles(column - 1, row - 1, arrangement,
                                               definition))
            IN  IF tile = Seat(TRUE)
                THEN (IF occupied >= tol THEN Seat(FALSE) ELSE Seat(TRUE))
                ELSE IF tile = Seat(FALSE)
                THEN (IF occupied = 0 THEN Seat(TRUE) ELSE Seat(FALSE))
                ELSE Floor]]

\* process_seat_layout calls find_equalibrium on the parsed layout
\* (lines 106-113, 132)
InitSeats ==
    /\ seating_arrangement \in Layouts
    /\ tolerance \in 0..MaxTolerance
    /\ adjacency_definition \in AdjacencyDefinition
    /\ previous_arrangement = seating_arrangement
    /\ seat_at = "loop"
    /\ OnlySeats

\* a loop that stops as soon as the number of occupied seats stays the same
EquilibriumIterationByCount ==
    /\ seat_at = "loop"
    /\ LET next_arrangement ==
               iterate_seats(previous_arrangement, tolerance, adjacency_definition)
           occupied(arrangement) ==
               Cardinality({<<r, c>> \in (1..Len(arrangement)) \X (1..MaxTiles) :
                               /\ c <= Len(arrangement[r])
                               /\ arrangement[r][c] = Seat(TRUE)})
       IN  IF occupied(next_arrangement) = occupied(previous_arrangement)
           THEN /\ seat_at' = "returned"
                /\ UNCHANGED previous_arrangement
           ELSE /\ previous_arrangement' = next_arrangement
                /\ UNCHANGED seat_at
    /\ UNCHANGED <<seating_arrangement, tolerance, adjacency_definition>>
    /\ UNCHANGED exceptSeats

\* one pass through the loop of find_equalibrium (lines 133-141), or its
\* break and the return of line 143
EquilibriumIteration ==
    /\ seat_at = "loop"
    /\ LET next_arrangement ==
               iterate_seats(previous_arrangement, tolerance, adjacency_definition)
       IN  IF next_arrangement = previous_arrangement
           THEN /\ seat_at' = "returned"
                /\ UNCHANGED previous_arrangement
           ELSE /\ previous_arrangement' = next_arrangement
                /\ UNCHANGED seat_at
    /\ UNCHANGED <<seating_arrangement, tolerance, adjacency_definition>>
    /\ UNCHANGED exceptSeats

NextSeats == EquilibriumIteration

SpecSeats == InitSeats /\ [][NextSeats]_vars

\* the loop is the only thing the command runs: it is always scheduled
FairSpecSeats == SpecSeats /\ WF_vars(NextSeats)

\* the layout has a seat
HasSeat(arrangement) ==
    \E row \in 1..Len(arrangement) :
        \E column \in 1..Len(arrangement[row]) :
            arrangement[row][column].kind = "Seat"

\* C18 as stated: for every layout, tolerance (0 included) and adjacency
\* definition find_equalibrium returns, and what it returns is a fixed point of
\* iterate_seats.
C18_TerminatesAtFixedPoint ==
    <>(/\ seat_at = "returned"
       /\ iterate_seats(previous_arrangement, tolerance, adjacency_definition)
              = previous_arrangement)

\* C18 as it holds: whenever find_equalibrium returns, the arrangement it
\* returns is a fixed point of iterate_seats; with tolerance 0 and a seat in the
\* layout it never returns.
C18_FixedPointOnReturn ==
    /\ seat_at = "returned" =>
          iterate_seats(previous_arrangement, tolerance, adjacency_definition)
              = previous_arrangement
    /\ (tolerance = 0 /\ HasSeat(seating_arrangement)) => seat_at # "returned"

\* find_equalibrium has returned an arrangement that differs from the layout it
\* was given, under the line-of-sight definition with a floor tile in the layout
C18_Witness ==
    /\ seat_at = "returned"
    /\ previous_arrangement # seating_arrangement
    /\ adjacency_definition = "LineOfSight"
    /\ tolerance > 0
    /\ \E row \in 1..Len(seating_arrangement) :
          \E column \in 1..Len(seating_arrangement[row]) :
              seating_arrangement[row][column] = Floor

----------------------------------------------------------------------------
(* Encoding error (src/src/encoding_error.rs) *)

\* the input holds at most MaxNumbers numbers from 0..MaxNumber; the preamble
\* length ranges over 0..MaxPreamble
MaxNumbers == 4
MaxNumber == 2
MaxPreamble == 2

NumberLists ==
    UNION {[1..length -> 0..MaxNumber] : length \in 0..MaxNumbers}

\* how many windows numbers.windows(preamble_length + 1) yields (line 123)
Windows(list, length) ==
    IF Len(list) >= length + 1 THEN Len(list) - length ELSE 0

\* the input has been read and parsed (process_numbers, lines 81-84)
InitXmas ==
    /\ numbers \in NumberLists
    /\ preamble_length \in 0..MaxPreamble
    /\ xmas_window = 1
    /\ missing = 0
    /\ xmas_at = "scan"
    /\ OnlyXmas

\* a scan whose checker holds every number before the tested one
XmasStepWholePrefix ==
    /\ xmas_at = "scan"
    /\ IF xmas_window > Windows(numbers, preamble_length)
       THEN /\ missing' = 0
            /\ xmas_at' = "returned"
            /\ UNCHANGED xmas_window
       ELSE LET preamble == SubSeq(numbers, 1, xmas_window + preamble_length - 1)
                test_number == numbers[xmas_window + preamble_length]
                checker == with_vec(preamble)
            IN  \E order \in Orders(checker.unique_numbers) :
                    IF find_sum_of_n(checker, order, test_number, 2).tag = "Err"
                    THEN /\ missing' = test_number
                         /\ xmas_at' = "returned"
                         /\ UNCHANGED xmas_window
                    ELSE /\ xmas_window' = xmas_window + 1
                         /\ UNCHANGED <<missing, xmas_at>>
    /\ UNCHANGED <<numbers, preamble_length>>
    /\ UNCHANGED exceptXmas

\* find_map pulls one window through the two maps (lines 123-130), or finds the
\* windows used up and takes the default of line 131
XmasStep ==
    /\ xmas_at = "scan"
    /\ IF xmas_window > Windows(numbers, preamble_length)
       THEN /\ missing' = 0
            /\ xmas_at' = "returned"
            /\ UNCHANGED xmas_window
       ELSE LET preamble == SubSeq(numbers, xmas_window,
                                   xmas_window + preamble_length - 1)
                test_number == numbers[xmas_window + preamble_length]
                checker == with_vec(preamble)
            IN  \E order \in Orders(checker.unique_numbers) :
                    IF find_sum_of_n(checker, order, test_number, 2).tag = "Err"
                    THEN /\ missing' = test_number
                         /\ xmas_at' = "returned"
                         /\ UNCHANGED xmas_window
                    ELSE /\ xmas_window' = xmas_window + 1
                         /\ UNCHANGED <<missing, xmas_at>>
    /\ UNCHANGED <<numbers, preamble_length>>
    /\ UNCHANGED exceptXmas

NextXmas == XmasStep

SpecXmas == InitXmas /\ [][NextXmas]_vars

\* the entry at position i (counted from 1) is the sum of two entries at two
\* different positions among the length entries just before it
IsSumOfTwo(list, length, i) ==
    \E a \in (i - length)..(i - 1), b \in (i - length)..(i - 1) :
        a # b /\ list[a] + list[b] = list[i]

\* the positions after the preamble whose entry is no such sum
NotSums(list, length) ==
    {i \in (length + 1)..Len(list) : ~IsSumOfTwo(list, length, i)}

\* C19: when some number after the preamble is not the sum of two entries at
\* different positions among the preamble_length numbers just before it,
\* find_missing_number returns the first such number; every number the scan
\* passed before it is such a sum.
C19_FirstNotSum ==
    /\ (xmas_at = "returned" /\ NotSums(numbers, preamble_length) # {}) =>
          /\ missing = numbers[Min(NotSums(numbers, preamble_length))]
          /\ xmas_window + preamble_length = Min(NotSums(numbers, preamble_length))
    /\ \A w \in 1..Windows(numbers, preamble_length) :
          w < xmas_window => IsSumOfTwo(numbers, preamble_length, w + preamble_length)

\* the scan passed the first number after the preamble and returned the next
\* one, which is a sum of two entries only with an entry that has left the
\* window
C19_Witness ==
    /\ xmas_at = "returned"
    /\ Len(numbers) = 4
    /\ preamble_length = 2
    /\ xmas_window = 2
    /\ missing = numbers[4]
    /\ missing = numbers[1] + numbers[2]
    /\ missing # 0

----------------------------------------------------------------------------
(* Bags that contain the target (src/src/handy_haversacks.rs) *)

\* bag names are 1..MaxBags; the input holds at most MaxRules rules, one for a
\* name, each with at most MaxChildren contained bags
MaxBags == 3
MaxRules == 2
MaxChildren == 2

BagNames == 1..MaxBags

\* a SackRule (lines 35-38); of contains, find_bags_that_contain reads the keys
\* only (line 149), and contains is their set
SackRule(name, contains) == [sack_name |-> name, contains |-> contains]

\* the rules of the named bags, in the order of the names
RulesOf(named, contains) ==
    [i \in 1..Cardinality(named) |->
        SackRule(SortedSeq(named)[i], contains[SortedSeq(named)[i]])]

\* the rules have been read and parsed (process_sacks, lines 105-109);
\* lines 147 and 160-162
InitBags ==
    /\ \E named \in SUBSET BagNames :
          /\ Cardinality(named) <= MaxRules
          /\ \E contains \in [named ->
                                {children \in SUBSET BagNames :
                                    Cardinality(children) <= MaxChildren}] :
                rules = RulesOf(named, contains)
    /\ sack_name \in BagNames
    /\ rule_index = 1
    /\ reverse_lookup = <<>>
    /\ parents = {}
    /\ queue = <<sack_name>>
    /\ bag_count = 0
    /\ bag_at = "build"
    /\ OnlyBags

\* lines 149-157 for one rule: every child's entry gains the rule's name
lookup_with(lookup, sack_rule) ==
    [child \in DOMAIN lookup \cup sack_rule.contains |->
        IF child \in sack_rule.contains
        THEN (IF child \in DOMAIN lookup THEN lookup[child] ELSE {})
             \cup {sack_rule.sack_name}
        ELSE lookup[child]]

\* an insert that replaces the child's entry by the rule's name alone
lookup_with_overwrite(lookup, sack_rule) ==
    [child \in DOMAIN lookup \cup sack_rule.contains |->
        IF child \in sack_rule.contains
        THEN {sack_rule.sack_name}
        ELSE lookup[child]]

\* a build step that overwrites the entries it touches
ReverseLookupStepOverwrite ==
    /\ bag_at = "build"
    /\ IF rule_index > Len(rules)
       THEN /\ bag_at' = "search"
            /\ UNCHANGED <<rule_index, reverse_lookup>>
       ELSE /\ reverse_lookup' = lookup_with_overwrite(reverse_lookup, rules[rule_index])
            /\ rule_index' = rule_index + 1
            /\ UNCHANGED bag_at
    /\ UNCHANGED <<rules, sack_name, parents, queue, bag_count>>
    /\ UNCHANGED exceptBags

\* one rule of the first for_each (lines 148-158), or its end
ReverseLookupStep ==
    /\ bag_at = "build"
    /\ IF rule_index > Len(rules)
       THEN /\ bag_at' = "search"
            /\ UNCHANGED <<rule_index, reverse_lookup>>
       ELSE /\ reverse_lookup' = lookup_with(reverse_lookup, rules[rule_index])
            /\ rule_index' = rule_index + 1
            /\ UNCHANGED bag_at
    /\ UNCHANGED <<rules, sack_name, parents, queue, bag_count>>
    /\ UNCHANGED exceptBags

\* the names of order that seen does not hold, in their order (lines 170-173)
RECURSIVE Unseen(_, _)
Unseen(order, seen) ==
    IF order = <<>> THEN <<>>
    ELSE (IF Head(order) \in seen THEN <<>> ELSE <<Head(order)>>)
         \o Unseen(Tail(order), seen)

\* one pass through the while loop (lines 164-175): pop_back, the lookup, and
\* the push of every new parent, in the order in which the HashSet iterates
LookupStep ==
    /\ bag_at = "search"
    /\ queue # <<>>
    /\ LET to_lookup == queue[Len(queue)]
           rest == SubSeq(queue, 1, Len(queue) - 1)
       IN  IF to_lookup \notin DOMAIN reverse_lookup
           THEN /\ queue' = rest
                /\ UNCHANGED parents
           ELSE \E order \in Orders(reverse_lookup[to_lookup]) :
                    /\ queue' = rest \o Unseen(order, parents)
                    /\ parents' = parents \cup reverse_lookup[to_lookup]
    /\ UNCHANGED <<rules, sack_name, rule_index, reverse_lookup, bag_count, bag_at>>
    /\ UNCHANGED exceptBags

\* the queue is empty: line 177 returns parents.len()
BagsReturn ==
    /\ bag_at = "search"
    /\ queue = <<>>
    /\ bag_count' = Cardinality(parents)
    /\ bag_at' = "returned"
    /\ UNCHANGED <<rules, sack_name, rule_index, reverse_lookup, parents, queue>>
    /\ UNCHANGED exceptBags

NextBags ==
    \/ ReverseLookupStep
    \/ LookupStep
    \/ BagsReturn

SpecBags == InitBags /\ [][NextBags]_vars

\* the function is the only thing the command runs: it is always scheduled
FairSpecBags == SpecBags /\ WF_vars(NextBags)

\* the names of the rules that contain a bag of names
Containers(rs, names) ==
    {rs[i].sack_name : i \in {j \in 1..Len(rs) : rs[j].contains \cap names # {}}}

RECURSIVE ContainersClosure(_, _)
ContainersClosure(rs, found) ==
    LET more == found \cup Containers(rs, found)
    IN  IF more = found THEN found ELSE ContainersClosure(rs, more)

\* the names from which target is reached through one or more contains steps
Reach(rs, target) == ContainersClosure(rs, Containers(rs, {target}))

\* C20: for every rule set, with containment cycles or not, and every target,
\* named by a rule or not, find_bags_that_contain returns, and what it returns
\* is the number of distinct names from which the target is reached through
\* one or more contains steps.
C20_CountsContainers ==
    /\ <>(bag_at = "returned")
    /\ [](bag_at = "returned" =>
              /\ parents = Reach(rules, sack_name)
              /\ bag_count = Cardinality(Reach(rules, sack_name)))

\* the call has returned on rules with a containment cycle through the target,
\* which is then counted among its own containers
C20_Witness ==
    /\ bag_at = "returned"
    /\ sack_name \in parents
    /\ bag_count = 2
    /\ \A i \in 1..Len(rules) : rules[i].sack_name \notin rules[i].contains

----------------------------------------------------------------------------
(* Bags inside the target (src/src/handy_haversacks.rs) *)

\* bag names are 1..MaxInsideBags, a rule holds at most MaxInsideChildren
\* contained bags, each with a quantity in 1..MaxQuantity
MaxInsideBags == 3
MaxInsideChildren == 2
MaxQuantity == 2

InsideNames == 1..MaxInsideBags

\* the HashMap contains of a SackRule (line 37): child -> quantity
ContainsMaps ==
    UNION {[children -> 1..MaxQuantity] :
              children \in {c \in SUBSET InsideNames :
                               Cardinality(c) <= MaxInsideChildren}}

\* the names of S in the order in which order lists them
RECURSIVE InOrder(_, _)
InOrder(order, S) ==
    IF order = <<>> THEN <<>>
    ELSE (IF Head(order) \in S THEN <<Head(order)>> ELSE <<>>)
         \o InOrder(Tail(order), S)

Panic == [tag |-> "Fault", value |-> 0, cache |-> <<>>]

\* lines 126-143.  stack holds the names whose call is in progress: a name that
\* is entered again before its result is cached is entered again for ever, and
\* the recursion ends in a stack overflow.
RECURSIVE find_bags_in_target(_, _, _, _, _)
RECURSIVE fold_contained_bags(_, _, _, _, _, _, _)
fold_contained_bags(names, contained_bags, lookup, cached, order, stack, acc) ==
    IF names = <<>> THEN [tag |-> "Ok", value |-> acc, cache |-> cached]
    ELSE LET name == Head(names)
             value == contained_bags[name]
             r == find_bags_in_target(name, lookup, cached, order, stack)
         IN  IF r.tag = "Fault" THEN Panic
             ELSE fold_contained_bags(Tail(names), contained_bags, lookup, r.cache,
                                      order, stack, acc + (r.value * value + value))

find_bags_in_target(name, lookup, cached, order, stack) ==
    IF name \in DOMAIN cached
    THEN [tag |-> "Ok", value |-> cached[name], cache |-> cached]
    ELSE IF name \notin DOMAIN lookup THEN Panic
    ELSE IF name \in stack THEN Panic
    ELSE LET contained_bags == lookup[name]
             names == InOrder(order, DOMAIN contained_bags)
             r == fold_contained_bags(names, contained_bags, lookup, cached, order,
                                      stack \cup {name}, 0)
         IN  IF r.tag = "Fault" THEN Panic
             ELSE [tag |-> "Ok", value |-> r.value,
                   cache |-> MapInsert(r.cache, name, r.value)]

\* the rules have been read and parsed (process_sacks, lines 105-106): a rule
\* for some of the names
InitInside ==
    /\ \E named \in SUBSET InsideNames :
          \E contains \in [named -> ContainsMaps] :
              inside_rules = RulesOf(named, contains)
    /\ inside_sack_name \in InsideNames
    /\ inside_order \in Orders(InsideNames)
    /\ bag_lookup = <<>>
    /\ cache = <<>>
    /\ inside_ret = [tag |-> "None", value |-> 0]
    /\ inside_at = "collect"
    /\ OnlyInside

\* lines 118-121: the rules are collected into bag_lookup
CollectLookup ==
    /\ inside_at = "collect"
    /\ bag_lookup' =
          [name \in {inside_rules[i].sack_name : i \in 1..Len(inside_rules)} |->
              LET last == Max({i \in 1..Len(inside_rules) :
                                  inside_rules[i].sack_name = name})
              IN  inside_rules[last].contains]
    /\ inside_at' = "recurse"
    /\ UNCHANGED <<inside_rules, inside_sack_name, inside_order, cache, inside_ret>>
    /\ UNCHANGED exceptInside

\* line 123: find_bags_in_target(sack_name, &bag_lookup, &mut HashMap::new())
FindBagsInTarget ==
    /\ inside_at = "recurse"
    /\ LET r == find_bags_in_target(inside_sack_name, bag_lookup, <<>>,
                                    inside_order, {})
       IN  /\ inside_ret' = [tag |-> r.tag, value |-> r.value]
           /\ cache' = r.cache
    /\ inside_at' = "returned"
    /\ UNCHANGED <<inside_rules, inside_sack_name, inside_order, bag_lookup>>
    /\ UNCHANGED exceptInside

NextInside ==
    \/ CollectLookup
    \/ FindBagsInTarget

SpecInside == InitInside /\ [][NextInside]_vars

\* the names a bag of names contains, in one step
Children(lookup, names) ==
    UNION {DOMAIN lookup[name] : name \in names \cap DOMAIN lookup}

RECURSIVE ChildrenClosure(_, _)
ChildrenClosure(lookup, found) ==
    LET more == found \cup Children(lookup, found)
    IN  IF more = found THEN found ELSE ChildrenClosure(lookup, more)

\* no bag contains itself, in one step or more
Acyclic(lookup) ==
    \A name \in DOMAIN lookup :
        name \notin ChildrenClosure(lookup, Children(lookup, {name}))

\* every contained bag has its own rule
ContainedHaveRules(lookup) == Children(lookup, DOMAIN lookup) \subseteq DOMAIN lookup

\* inside(b), the sum over each child c of b with quantity q of
\* q * (1 + inside(c)), by the recursion without a cache; a bag without a rule
\* has nothing inside
RECURSIVE Inside(_, _)
RECURSIVE SumInside(_, _, _)
SumInside(lookup, b, children) ==
    IF children = {} THEN 0
    ELSE LET c == CHOOSE c \in children : TRUE
         IN  lookup[b][c] * (1 + Inside(lookup, c))
             + SumInside(lookup, b, children \ {c})

Inside(lookup, b) ==
    IF b \notin DOMAIN lookup THEN 0
    ELSE SumInside(lookup, b, DOMAIN lookup[b])

\* C21: on an acyclic rule set in which every contained bag has its own rule,
\* find_number_of_bags_in_target returns inside(target), the value of the
\* recursion without the cache, for every target.
C21_CountsInside ==
    (/\ inside_at = "returned"
     /\ Acyclic(bag_lookup)
     /\ ContainedHaveRules(bag_lookup)) =>
        /\ inside_ret.tag = "Ok"
        /\ inside_ret.value = Inside(bag_lookup, inside_sack_name)

----------------------------------------------------------------------------
(* Binary boarding (src/src/binary_boarding.rs) *)

\* the list holds at most MaxPasses boarding passes with rows 0..MaxRow and
\* columns 0..MaxColumn
MaxPasses == 3
MaxRow == 0
MaxColumn == 4

\* row * 8 in seat_id (line 39)
RowWidth == 8

\* struct BoardingPass (lines 31-35)
BoardingPass(row, column) == [row |-> row, column |-> column]

BoardingPasses ==
    {BoardingPass(row, column) : row \in 0..MaxRow, column \in 0..MaxColumn}

\* BoardingPass::seat_id (lines 37-41)
seat_id(boarding_pass) == boarding_pass.row * RowWidth + boarding_pass.column

\* Vec::sort of a Vec<usize> that may hold a value more than once
RECURSIVE InsertSorted(_, _)
InsertSorted(sorted, value) ==
    IF sorted = <<>> \/ value <= Head(sorted)
    THEN <<value>> \o sorted
    ELSE <<Head(sorted)>> \o InsertSorted(Tail(sorted), value)

RECURSIVE SortVec(_)
SortVec(vec) ==
    IF vec = <<>> THEN <<>>
    ELSE InsertSorted(SortVec(Tail(vec)), Head(vec))

\* windows(2).map(..).find(|(low, high)| low + 2 == high).map(low + 1)
\* .unwrap_or(0) on the vector from position `from` on (lines 118-123)
RECURSIVE find_window_from(_, _)
find_window_from(ids, from) ==
    IF from + 1 > Len(ids) THEN 0
    ELSE IF ids[from] + 2 = ids[from + 1] THEN ids[from] + 1
    ELSE find_window_from(ids, from + 1)

find_window(ids) == find_window_from(ids, 1)

\* process_boarding_passes has parsed the file and calls
\* find_missing_boarding_id (lines 92-99)
InitBoarding ==
    /\ boarding_passes \in
           UNION {[1..length -> BoardingPasses] : length \in 0..MaxPasses}
    /\ boarding_ids = <<>>
    /\ boarding_ret = 0
    /\ boarding_at = "collect"
    /\ OnlyBoarding

\* lines 112-115
CollectIds ==
    /\ boarding_at = "collect"
    /\ boarding_ids' = [position \in 1..Len(boarding_passes) |->
                            seat_id(boarding_passes[position])]
    /\ boarding_at' = "sort"
    /\ UNCHANGED <<boarding_passes, boarding_ret>>
    /\ UNCHANGED exceptBoarding

\* line 117
SortIds ==
    /\ boarding_at = "sort"
    /\ boarding_ids' = SortVec(boarding_ids)
    /\ boarding_at' = "find"
    /\ UNCHANGED <<boarding_passes, boarding_ret>>
    /\ UNCHANGED exceptBoarding

\* lines 118-123
FindMissing ==
    /\ boarding_at = "find"
    /\ boarding_ret' = find_window(boarding_ids)
    /\ boarding_at' = "returned"
    /\ UNCHANGED <<boarding_passes, boarding_ids>>
    /\ UNCHANGED exceptBoarding

NextBoarding ==
    \/ CollectIds
    \/ SortIds
    \/ FindMissing

SpecBoarding == InitBoarding /\ [][NextBoarding]_vars

\* the seat ids of the list
ListedIds == {seat_id(boarding_passes[position]) : position \in 1..Len(boarding_passes)}

\* the seat ids that are absent from the list while both neighbours are present
MissingIds ==
    {id \in 1..(MaxRow * RowWidth + MaxColumn) :
        /\ id \notin ListedIds
        /\ id - 1 \in ListedIds
        /\ id + 1 \in ListedIds}

\* C22: find_missing_boarding_id returns the one seat id that is absent from the
\* list while both of its neighbours are present, and 0 when there are several
\* such seat ids or none.
C22_MissingOrZero ==
    boarding_at = "returned" =>
        /\ Cardinality(MissingIds) = 1 => boarding_ret \in MissingIds
        /\ Cardinality(MissingIds) # 1 => boarding_ret = 0

----------------------------------------------------------------------------
(* Shuttle search (src/src/shuttle_search.rs) *)

\* the target time ranges over 0..MaxTime, the schedule holds 1..MaxRoutes
\* routes, and the bus ids range over 1..MaxBus
MaxTime == 4
MaxRoutes == 2
MaxBus == 3

\* enum BusRoute (lines 20-25)
Bus(x) == [tag |-> "Bus", value |-> x]
X == [tag |-> "X", value |-> 0]

BusRoutes == {Bus(x) : x \in 1..MaxBus} \cup {X}

\* struct BusSchedule (lines 27-31)
BusSchedule(depart_time, routes) ==
    [depart_time |-> depart_time, routes |-> routes]

\* the filter_map of lines 81-84: the bus numbers of the routes, in order
RECURSIVE bus_numbers(_)
bus_numbers(routes) ==
    IF routes = <<>> THEN <<>>
    ELSE IF Head(routes).tag = "Bus"
         THEN <<Head(routes).value>> \o bus_numbers(Tail(routes))
         ELSE bus_numbers(Tail(routes))

\* the map of lines 85-89; the operands of % are not negative here, so that
\* the remainder of Rust and the modulus agree
next_departure(depart_time, bus_number) ==
    <<bus_number, depart_time - ((depart_time % bus_number) - bus_number)>>

\* fold_first of line 90 over the remaining pairs
RECURSIVE fold_low(_, _, _)
fold_low(low, numbers_left, depart_time) ==
    IF numbers_left = <<>> THEN low
    ELSE LET candidate == next_departure(depart_time, Head(numbers_left))
         IN  fold_low(IF candidate[2] < low[2] THEN candidate ELSE low,
                      Tail(numbers_left), depart_time)

\* find_next_bus (lines 76-92); unwrap of None panics when no route is a bus
find_next_bus(bus_schedule) ==
    LET buses == bus_numbers(bus_schedule.routes)
    IN  IF buses = <<>> THEN Fault
        ELSE Ok(fold_low(next_departure(bus_schedule.depart_time, Head(buses)),
                         Tail(buses), bus_schedule.depart_time))

\* the file has been read and parsed (lines 68-69)
InitShuttle ==
    /\ \E depart_time \in 0..MaxTime :
          \E routes \in UNION {[1..length -> BusRoutes] : length \in 1..MaxRoutes} :
              schedule = BusSchedule(depart_time, routes)
    /\ next_bus = <<>>
    /\ shuttle_ret = NoRet
    /\ shuttle_at = "find"
    /\ OnlyShuttle

\* line 71: the call of find_next_bus
FindNextBus ==
    /\ shuttle_at = "find"
    /\ LET found == find_next_bus(schedule)
       IN  IF found.tag = "Ok"
           THEN /\ next_bus' = found.values
                /\ shuttle_at' = "multiply"
                /\ UNCHANGED shuttle_ret
           ELSE /\ shuttle_ret' = Fault
                /\ shuttle_at' = "returned"
                /\ UNCHANGED next_bus
    /\ UNCHANGED schedule
    /\ UNCHANGED exceptShuttle

\* line 72
Multiply ==
    /\ shuttle_at = "multiply"
    /\ shuttle_ret' = Ok((next_bus[2] - schedule.depart_time) * next_bus[1])
    /\ shuttle_at' = "returned"
    /\ UNCHANGED <<schedule, next_bus>>
    /\ UNCHANGED exceptShuttle

NextShuttle ==
    \/ FindNextBus
    \/ Multiply

SpecShuttle == InitShuttle /\ [][NextShuttle]_vars

\* the smallest multiple of bus_number that is >= time
Departure(bus_number, time) ==
    CHOOSE departure \in time..(time + bus_number) :
        /\ departure % bus_number = 0
        /\ \A earlier \in time..(departure - 1) : earlier % bus_number # 0

\* the buses of the schedule
ScheduledBuses ==
    {schedule.routes[position].value :
        position \in {p \in 1..Len(schedule.routes) : schedule.routes[p].tag = "Bus"}}

\* the buses of the schedule whose next departure is earliest
EarliestBuses ==
    {bus \in ScheduledBuses :
        \A other \in ScheduledBuses :
            Departure(bus, schedule.depart_time)
                <= Departure(other, schedule.depart_time)}

\* C23: for a target time >= 0 and bus ids > 0, process_schedule returns the id
\* of a bus whose next departure (the smallest multiple of the id that is >= the
\* target time) is earliest, multiplied by the wait for that departure.
C23_EarliestTimesWait ==
    (shuttle_at = "returned" /\ ScheduledBuses # {}) =>
        /\ shuttle_ret.tag = "Ok"
        /\ \E bus \in EarliestBuses :
              /\ next_bus = <<bus, Departure(bus, schedule.depart_time)>>
              /\ shuttle_ret.values =
                     bus * (Departure(bus, schedule.depart_time)
                            - schedule.depart_time)

----------------------------------------------------------------------------
(* Adapter array, the joltage gaps (src/src/adapter_array.rs) *)

\* adapters.windows(2).filter(|window| window[1] - window[0] == gap).count()
\* (lines 105-108 and 109-112); the chain is sorted, so the subtraction of
\* usize values never wraps
count_gaps(chain, gap) ==
    Cardinality({position \in 1..(Len(chain) - 1) :
                    chain[position + 1] - chain[position] = gap})

\* process_adapters hands the chain to find_and_sum_1_and_3_votage_gaps
\* (lines 85-97)
InitGaps ==
    /\ \E input \in SUBSET (1..MaxJolt) : gap_adapters = ChainOf(input)
    /\ gap_ones = 0
    /\ gap_threes = 0
    /\ gap_ret = 0
    /\ gap_at = "gap_ones"
    /\ OnlyGaps

\* lines 105-108
CountOnes ==
    /\ gap_at = "gap_ones"
    /\ gap_ones' = count_gaps(gap_adapters, 1)
    /\ gap_at' = "gap_threes"
    /\ UNCHANGED <<gap_adapters, gap_threes, gap_ret>>
    /\ UNCHANGED exceptGaps

\* lines 109-112
CountThrees ==
    /\ gap_at = "gap_threes"
    /\ gap_threes' = count_gaps(gap_adapters, 3)
    /\ gap_at' = "result"
    /\ UNCHANGED <<gap_adapters, gap_ones, gap_ret>>
    /\ UNCHANGED exceptGaps

\* line 114
GapsReturn ==
    /\ gap_at = "result"
    /\ gap_ret' = gap_ones * gap_threes
    /\ gap_at' = "returned"
    /\ UNCHANGED <<gap_adapters, gap_ones, gap_threes>>
    /\ UNCHANGED exceptGaps

NextGaps ==
    \/ CountOnes
    \/ CountThrees
    \/ GapsReturn

SpecGaps == InitGaps /\ [][NextGaps]_vars

\* the number of neighbours of the chain that are `gap` apart
RECURSIVE GapsOf(_, _)
GapsOf(chain, gap) ==
    IF Len(chain) < 2 THEN 0
    ELSE (IF chain[2] - chain[1] = gap THEN 1 ELSE 0) + GapsOf(Tail(chain), gap)

\* C24: for every sorted adapter chain, find_and_sum_1_and_3_votage_gaps returns
\* the number of gaps of 1 plus the number of gaps of 3 between neighbours.
C24_SumOfGaps ==
    gap_at = "returned" =>
        gap_ret = GapsOf(gap_adapters, 1) + GapsOf(gap_adapters, 3)

----------------------------------------------------------------------------
(* Seating system, the line of sight (src/src/seating_system.rs) *)

\* the grid has 1..MaxSightRows rows and 1..MaxSightColumns columns
MaxSightRows == 3
MaxSightColumns == 3

SightLayouts ==
    UNION {[1..rows -> [1..columns -> FloorTile]] :
              rows \in 1..MaxSightRows, columns \in 1..MaxSightColumns}

\* the arguments of the 8 calls of traverse_until_seat, in the order of lines
\* 212-314: up left, up, up right, left, right, left down, down, down right.
\* A move is the step that Sub::sub, Mul::mul or Add::add makes of (current, 1).
Call(x_stop, y_stop, x_move, y_move) ==
    [x_stop |-> x_stop, y_stop |-> y_stop, x_move |-> x_move, y_move |-> y_move]

traverse_calls(x_max, y_max) ==
    <<Call(Some(0), Some(0), -1, -1),
      Call(None, Some(0), 0, -1),
      Call(Some(x_max), Some(0), 1, -1),
      Call(Some(0), None, -1, 0),
      Call(Some(x_max), None, 1, 0),
      Call(Some(0), Some(y_max), -1, 1),
      Call(None, Some(y_max), 0, 1),
      Call(Some(x_max), Some(y_max), 1, 1)>>

\* whether seating_arrangement[y][x] is inside the vectors
InGrid(arrangement, x, y) ==
    /\ y >= 0 /\ y < Len(arrangement)
    /\ x >= 0 /\ x < Len(arrangement[y + 1])

\* iterate_seats calls get_line_of_sight_seats for a position of the grid
\* (lines 150-164)
InitSight ==
    /\ sight_arrangement \in SightLayouts
    /\ sight_y \in 0..(Len(sight_arrangement) - 1)
    /\ sight_x \in 0..(Len(sight_arrangement[1]) - 1)
    /\ direction = 1
    /\ current = <<sight_x, sight_y>>
    /\ sight_result = <<>>
    /\ read_at = {}
    /\ indexed = {}
    /\ sight_at = "traverse"
    /\ OnlySight

\* a traversal that looks at the neighbouring tile only and gives up on Floor
TraverseStepNeighbourOnly ==
    /\ sight_at = "traverse"
    /\ direction <= 8
    /\ LET y_max == Len(sight_arrangement) - 1
           x_max == Len(sight_arrangement[1]) - 1
           args == traverse_calls(x_max, y_max)[direction]
           current_x == current[1] + args.x_move
           current_y == current[2] + args.y_move
       IN  IF \/ (args.x_stop.tag = "Some" /\ current[1] = args.x_stop.value)
              \/ (args.y_stop.tag = "Some" /\ current[2] = args.y_stop.value)
           THEN /\ direction' = direction + 1
                /\ current' = <<sight_x, sight_y>>
                /\ UNCHANGED <<sight_result, read_at, indexed, sight_at>>
           ELSE IF ~InGrid(sight_arrangement, current_x, current_y)
           THEN /\ sight_at' = "fault"
                /\ indexed' = indexed \cup {<<current_x, current_y>>}
                /\ UNCHANGED <<direction, current, sight_result, read_at>>
           ELSE /\ indexed' = indexed \cup {<<current_x, current_y>>}
                /\ direction' = direction + 1
                /\ current' = <<sight_x, sight_y>>
                /\ IF TileAt(sight_arrangement, current_x, current_y).kind = "Seat"
                   THEN /\ sight_result' = Append(sight_result,
                                  TileAt(sight_arrangement, current_x, current_y))
                        /\ read_at' = read_at \cup {<<current_x, current_y>>}
                   ELSE UNCHANGED <<sight_result, read_at>>
                /\ UNCHANGED sight_at
    /\ UNCHANGED <<sight_arrangement, sight_x, sight_y>>
    /\ UNCHANGED exceptSight

\* one pass through the loop of traverse_until_seat (lines 331-347), with the
\* push of its sight_result (for_each, lines 221-222) when the call returns
TraverseStep ==
    /\ sight_at = "traverse"
    /\ direction <= 8
    /\ LET y_max == Len(sight_arrangement) - 1
           x_max == Len(sight_arrangement[1]) - 1
           args == traverse_calls(x_max, y_max)[direction]
           current_x == current[1] + args.x_move
           current_y == current[2] + args.y_move
       IN  IF \/ (args.x_stop.tag = "Some" /\ current[1] = args.x_stop.value)
              \/ (args.y_stop.tag = "Some" /\ current[2] = args.y_stop.value)
           THEN /\ direction' = direction + 1
                /\ current' = <<sight_x, sight_y>>
                /\ UNCHANGED <<sight_result, read_at, indexed, sight_at>>
           ELSE IF ~InGrid(sight_arrangement, current_x, current_y)
           THEN /\ sight_at' = "fault"
                /\ indexed' = indexed \cup {<<current_x, current_y>>}
                /\ UNCHANGED <<direction, current, sight_result, read_at>>
           ELSE /\ indexed' = indexed \cup {<<current_x, current_y>>}
                /\ IF TileAt(sight_arrangement, current_x, current_y).kind = "Seat"
                   THEN /\ sight_result' = Append(sight_result,
                                  TileAt(sight_arrangement, current_x, current_y))
                        /\ read_at' = read_at \cup {<<current_x, current_y>>}
                        /\ direction' = direction + 1
                        /\ current' = <<sight_x, sight_y>>
                   ELSE /\ current' = <<current_x, current_y>>
                        /\ UNCHANGED <<sight_result, read_at, direction>>
                /\ UNCHANGED sight_at
    /\ UNCHANGED <<sight_arrangement, sight_x, sight_y>>
    /\ UNCHANGED exceptSight

\* line 316
SightReturn ==
    /\ sight_at = "traverse"
    /\ direction > 8
    /\ sight_at' = "returned"
    /\ UNCHANGED <<sight_arrangement, sight_x, sight_y, direction, current,
                   sight_result, read_at, indexed>>
    /\ UNCHANGED exceptSight

NextSight ==
    \/ TraverseStep
    \/ SightReturn

SpecSight == InitSight /\ [][NextSight]_vars

\* the 8 directions, as steps of (x, y)
Directions == (({-1, 0, 1} \X {-1, 0, 1}) \ {<<0, 0>>})

\* the positions of the grid
GridPositions(arrangement) ==
    {position \in (0..(MaxSightColumns - 1)) \X (0..(MaxSightRows - 1)) :
        InGrid(arrangement, position[1], position[2])}

\* how far from (x, y) the seats in direction `step` are
SeatDistances(arrangement, x, y, step) ==
    {distance \in 1..Max({MaxSightRows, MaxSightColumns}) :
        /\ InGrid(arrangement, x + distance * step[1], y + distance * step[2])
        /\ TileAt(arrangement, x + distance * step[1],
                  y + distance * step[2]).kind = "Seat"}

\* where the first seat in each direction is; a direction without a seat before
\* the edge of the grid gives nothing
FirstSeats(arrangement, x, y) ==
    {<<x + Min(SeatDistances(arrangement, x, y, step)) * step[1],
       y + Min(SeatDistances(arrangement, x, y, step)) * step[2]>> :
        step \in {s \in Directions : SeatDistances(arrangement, x, y, s) # {}}}

\* C25: for every rectangular grid and every position (x, y) of it,
\* get_line_of_sight_seats returns the first Seat tile of each of the 8
\* directions, skipping Floor tiles, and nothing for a direction that reaches the
\* edge first; it never reads the tile at (x, y) and never indexes outside the
\* grid.  The first seat of a direction is in the result when the call for that
\* direction returns.
C25_FirstSeatInSight ==
    /\ sight_at # "fault"
    /\ indexed \subseteq GridPositions(sight_arrangement)
    /\ <<sight_x, sight_y>> \notin indexed
    /\ (direction > 1 /\ current = <<sight_x, sight_y>>) =>
          LET args == traverse_calls(Len(sight_arrangement[1]) - 1,
                                     Len(sight_arrangement) - 1)[direction - 1]
              seats == SeatDistances(sight_arrangement, sight_x, sight_y,
                                     <<args.x_move, args.y_move>>)
          IN  seats # {} =>
                  <<sight_x + Min(seats) * args.x_move,
                    sight_y + Min(seats) * args.y_move>> \in read_at
    /\ sight_at = "returned" =>
          /\ read_at = FirstSeats(sight_arrangement, sight_x, sight_y)
          /\ Len(sight_result) = Cardinality(read_at)
          /\ \A tile \in FloorTile :
                Count(sight_result, tile) =
                    Cardinality({position \in read_at :
                        TileAt(sight_arrangement, position[1], position[2]) = tile})

\* the call has returned from the corner (0, 0) of a grid of 3 rows: the diagonal
\* skipped the Floor tile at (1, 1) and met the seat at (2, 2), and the
\* direction to the right gave nothing
C25_Witness ==
    /\ sight_at = "returned"
    /\ sight_x = 0 /\ sight_y = 0
    /\ Len(sight_arrangement) = 3 /\ Len(sight_arrangement[1]) = 3
    /\ TileAt(sight_arrangement, 1, 1) = Floor
    /\ TileAt(sight_arrangement, 1, 0) = Floor
    /\ TileAt(sight_arrangement, 2, 0) = Floor
    /\ <<2, 2>> \in read_at
    /\ Seat(TRUE) \in {sight_result[position] : position \in 1..Len(sight_result)}

----------------------------------------------------------------------------
(* parse_lines (src/src/lib.rs) *)

\* the input holds at most MaxLines lines; a line is a text 1..MaxText that the
\* parse function either accepts or rejects
MaxLines == 3
MaxText == 2

Line(text, well_formed) == [text |-> text, well_formed |-> well_formed]

Lines == {Line(text, well_formed) : text \in 1..MaxText, well_formed \in BOOLEAN}

\* the two variants of Result<U, E> (line 182)
ParseOk(parsed) == [tag |-> "Ok", value |-> parsed]
ParseErr(error) == [tag |-> "Err", value |-> error]

\* the argument parse_function (line 184): a parser gives the value of a line it
\* accepts and an error for a line it rejects
parse_function(line) ==
    IF line.well_formed
    THEN ParseOk([parsed |-> line.text])
    ELSE ParseErr([error |-> line.text])

\* a command hands the lines of its file to parse_lines
InitParse ==
    /\ lines \in UNION {[1..length -> Lines] : length \in 0..MaxLines}
    /\ line_position = 0
    /\ parsed_lines = <<>>
    /\ parse_calls = <<>>
    /\ parse_ret = NoRet
    /\ parse_at = "fold"
    /\ OnlyParse

\* a fold that parses every line and reports the first error at the end
ParseStepToTheEnd ==
    /\ parse_at = "fold"
    /\ IF line_position >= Len(lines)
       THEN /\ parse_ret' =
                  IF \E position \in 1..Len(lines) : ~lines[position].well_formed
                  THEN parse_function(
                           lines[Min({position \in 1..Len(lines) :
                                         ~lines[position].well_formed})])
                  ELSE ParseOk(parsed_lines)
            /\ parse_at' = "returned"
            /\ UNCHANGED <<line_position, parsed_lines, parse_calls>>
       ELSE LET line == lines[line_position + 1]
                parsed_line == parse_function(line)
            IN  /\ line_position' = line_position + 1
                /\ parse_calls' = Append(parse_calls, line_position + 1)
                /\ parsed_lines' = IF parsed_line.tag = "Ok"
                                   THEN Append(parsed_lines, parsed_line.value)
                                   ELSE parsed_lines
                /\ UNCHANGED <<parse_ret, parse_at>>
    /\ UNCHANGED lines
    /\ UNCHANGED exceptParse

\* one step of try_fold (lines 186-193): the iterator is used up and the
\* accumulator is returned, or the closure parses the next line and either
\* pushes its value or makes try_fold return the error
ParseStep ==
    /\ parse_at = "fold"
    /\ IF line_position >= Len(lines)
       THEN /\ parse_ret' = ParseOk(parsed_lines)
            /\ parse_at' = "returned"
            /\ UNCHANGED <<line_position, parsed_lines, parse_calls>>
       ELSE LET line == lines[line_position + 1]
                parsed_line == parse_function(line)
            IN  /\ line_position' = line_position + 1
                /\ parse_calls' = Append(parse_calls, line_position + 1)
                /\ IF parsed_line.tag = "Ok"
                   THEN /\ parsed_lines' = Append(parsed_lines, parsed_line.value)
                        /\ UNCHANGED <<parse_ret, parse_at>>
                   ELSE /\ parse_ret' = ParseErr(parsed_line.value)
                        /\ parse_at' = "returned"
                        /\ UNCHANGED parsed_lines
    /\ UNCHANGED lines
    /\ UNCHANGED exceptParse

NextParse == ParseStep

SpecParse == InitParse /\ [][NextParse]_vars

\* the positions of the lines that do not parse
Failing == {position \in 1..Len(lines) : parse_function(lines[position]).tag = "Err"}

\* C26: parse_lines returns Ok with one parsed value per line, in input order, if
\* and only if every line parses; otherwise it returns the error of the first
\* failing line and nothing else, and no line after the first failing one has
\* been handed to the parse function.
C26_AllOrNothing ==
    parse_at = "returned" =>
        /\ parse_ret.tag = "Ok" <=> Failing = {}
        /\ Failing = {} =>
              /\ parse_ret.value =
                     [position \in 1..Len(lines) |->
                         parse_function(lines[position]).value]
              /\ parse_calls = [position \in 1..Len(lines) |-> position]
        /\ Failing # {} =>
              /\ parse_ret = ParseErr(parse_function(lines[Min(Failing)]).value)
              /\ parse_calls = [position \in 1..Min(Failing) |-> position]

\* parse_lines has returned the error of the second of three lines, after one
\* line that parsed and before one that would not have parsed either
C26_Witness ==
    /\ parse_at = "returned"
    /\ Len(lines) = 3
    /\ lines[1].well_formed
    /\ ~lines[2].well_formed
    /\ ~lines[3].well_formed
    /\ lines[2].text # lines[3].text
    /\ parse_ret.tag = "Err"
    /\ parsed_lines # <<>>

----------------------------------------------------------------------------
(* Encoding error, the contiguous sequence (src/src/encoding_error.rs) *)

\* the target ranges over 0..MaxSeqTarget; the numbers are those of NumberLists
MaxSeqTarget == 3

\* numbers[low..high] (lines 149 and 153): the slice, or the panic of a range
\* that is out of order or ends behind the vector
slice(list, low_index, high_index) ==
    IF low_index > high_index \/ high_index > Len(list)
    THEN Fault
    ELSE Ok(SubSeq(list, low_index + 1, high_index))

\* lines 152-156
sum_from_low_to_high(low_index, high_index, list) ==
    LET range == slice(list, low_index, high_index)
    IN  IF range.tag = "Fault" THEN Fault ELSE Ok(SumSeq(range.values))

\* process_numbers hands the numbers and the missing number to
\* find_continous_sequence_of_at_least_two_that_sum_to_target (lines 84-88);
\* low = 0 and high = 1 (lines 138-139)
InitSequence ==
    /\ seq_numbers \in NumberLists
    /\ seq_target \in 0..MaxSeqTarget
    /\ seq_low = 0
    /\ seq_high = 1
    /\ seq_ret = NoRet
    /\ seq_at = "loop"
    /\ OnlySequence

\* one pass through the loop (lines 141-147), with line 149 when it breaks
SequenceStep ==
    /\ seq_at = "loop"
    /\ LET sum == sum_from_low_to_high(seq_low, seq_high, seq_numbers)
       IN  IF sum.tag = "Fault"
           THEN /\ seq_ret' = Fault
                /\ seq_at' = "returned"
                /\ UNCHANGED <<seq_low, seq_high>>
           ELSE IF sum.values > seq_target
           THEN /\ seq_low' = seq_low + 1
                /\ UNCHANGED <<seq_high, seq_ret, seq_at>>
           ELSE IF sum.values < seq_target
           THEN /\ seq_high' = seq_high + 1
                /\ UNCHANGED <<seq_low, seq_ret, seq_at>>
           ELSE /\ seq_ret' = slice(seq_numbers, seq_low, seq_high)
                /\ seq_at' = "returned"
                /\ UNCHANGED <<seq_low, seq_high>>
    /\ UNCHANGED <<seq_numbers, seq_target>>
    /\ UNCHANGED exceptSequence

NextSequence == SequenceStep

SpecSequence == InitSequence /\ [][NextSequence]_vars

\* C27: whenever find_continous_sequence_of_at_least_two_that_sum_to_target
\* returns, it returns the contiguous slice numbers[low..high], the elements of
\* the slice sum to target, and the slice holds at least two elements.
C27_AtLeastTwoThatSum ==
    (seq_at = "returned" /\ seq_ret.tag = "Ok") =>
        /\ seq_ret.values = SubSeq(seq_numbers, seq_low + 1, seq_high)
        /\ SumSeq(seq_ret.values) = seq_target
        /\ Len(seq_ret.values) >= 2

====
